---------------------------- MODULE Spec2Model ----------------------------
(***************************************************************************)
(* Rate-limiter service: the three admission algorithms (fixed window,     *)
(* sliding window, token bucket) running their Lua scripts atomically on   *)
(* a shared Redis store, and the orchestrator (RateLimiterService) that    *)
(* resolves a check request to an algorithm, a limit and a window through  *)
(* the rule service (an in-memory cache per service instance in front of   *)
(* the durable store).                                                     *)
(*                                                                         *)
(* Time is in milliseconds, as Date.now() gives it.  One clock serves the  *)
(* service instances and the store (no skew between machines); it moves    *)
(* in steps of TickMs.  Strings are sequences of atoms, so concatenation   *)
(* and substring search are computed, not assumed.  Lua and JavaScript     *)
(* doubles are modelled by exact rationals <<numerator, denominator>>.     *)
(***************************************************************************)
EXTENDS Integers, Sequences, FiniteSets, Bags, TLC

VARIABLES
    clock,      \* wall clock, ms
    redis,      \* the store's key space: key -> [val, exp]
    cache,      \* RuleCache.rules of each service instance: rule id -> Rule
    pending,    \* bag of limiter.check calls that read Date.now() and await evalScript
    log,        \* completed checks in the order the store executed them
    errors,     \* messages of the errors thrown so far, in order
    lookups,    \* number of reads of the rule cache or rule store so far
    nextId,     \* number of checks issued so far
    ruleOps,    \* number of createRule, updateRule and deleteRule calls so far
    last,       \* the latest check: the instance that ran it and its request
    faults,     \* number of evalScript calls the store connection has failed
    ret,        \* the latest RuleService call: its arguments and what it returned
    hooks,      \* the webhook queue: its jobs by id, the wait list, the number
                \* of ids given, and the requests and sleeps of the notifier
    calls       \* updateRule and deleteRule calls that await the store, and
                \* those that have returned, in the order they were made

vars ==
    <<clock, redis, cache, pending, log, errors, lookups, nextId, ruleOps, last,
      faults, ret, hooks, calls>>

---------------------------------------------------------------------------
(* Bounds of the model *)

\* clock steps per second
TicksPerSec == 4
\* the clock stops after this many steps
MaxTicks == 6
\* checks issued in one behaviour
MaxChecks == 4
\* clock steps a call may spend between reading Date.now() and its script
\* running at the store
MaxLatencyTicks == 2
\* limit and window values a check or a rule may carry
Limits == {1, 2}
Windows == {1}

\* window * 1000: seconds to milliseconds
MsPerSec == 1000

TickMs == MsPerSec \div TicksPerSec
MaxTime == MaxTicks * TickMs

Algorithms == {"token_bucket", "fixed_window", "sliding_window"}

---------------------------------------------------------------------------
(* Arithmetic of doubles, as exact rationals <<n, d>> with d > 0 *)

RECURSIVE GCD(_, _)
GCD(a, b) == IF b = 0 THEN a ELSE GCD(b, a % b)

Abs(a) == IF a < 0 THEN -a ELSE a

Rat(n, d) ==
    LET g == GCD(Abs(n), d)
    IN  <<n \div g, d \div g>>

RInt(n) == <<n, 1>>
RAdd(a, b) == Rat(a[1] * b[2] + b[1] * a[2], a[2] * b[2])
RSub(a, b) == Rat(a[1] * b[2] - b[1] * a[2], a[2] * b[2])
RMul(a, b) == Rat(a[1] * b[1], a[2] * b[2])
RLess(a, b) == a[1] * b[2] < b[1] * a[2]
RMin(a, b) == IF RLess(b, a) THEN b ELSE a

\* math.floor / Math.floor
Floor(a) == a[1] \div a[2]
\* Math.ceil
Ceil(a) == -((-a[1]) \div a[2])
\* a Lua number returned by a script becomes a Redis integer reply: the
\* fraction is dropped (truncation toward zero)
ToInteger(a) == IF a[1] >= 0 THEN a[1] \div a[2] ELSE -((-a[1]) \div a[2])

Max(a, b) == IF a > b THEN a ELSE b

---------------------------------------------------------------------------
(* The store: keys, expiry, GET / INCR / EXPIRE / HMGET / HMSET.  The      *)
(* operators take the key space they work on as their first argument.      *)

NoExpiry == -1

\* Redis treats a key as gone once the clock has passed its expiry time
Live(store, k) ==
    /\ k \in DOMAIN store
    /\ (store[k].exp = NoExpiry \/ clock <= store[k].exp)

\* SET / INCR / HMSET of key k to value v with EXPIRE k seconds at the store
\* variant of StoreSet: the value is written and the expiry left as it was
StoreSetKeepsExpiry(store, k, v, seconds) ==
    [j \in DOMAIN store \cup {k} |->
        IF j = k
        THEN [val |-> v,
              exp |-> IF k \in DOMAIN store THEN store[k].exp ELSE NoExpiry]
        ELSE store[j]]

StoreSet(store, k, v, seconds) ==
    [j \in DOMAIN store \cup {k} |->
        IF j = k THEN [val |-> v, exp |-> clock + seconds * MsPerSec]
        ELSE store[j]]

\* keys whose expiry the clock value t has passed are removed
Purge(t) ==
    [j \in {k \in DOMAIN redis : redis[k].exp = NoExpiry \/ t <= redis[k].exp}
        |-> redis[j]]

\* GET of a counter key: the count, or absent
GetCount(store, k) == IF Live(store, k) THEN {store[k].val} ELSE {}

---------------------------------------------------------------------------
(* Strings: sequences of atoms *)

\* `${a}:${b}`
Colon(a, b) == a \o <<":">> \o b

\* String(n) of a number inside a template string
NumStr(n) == <<ToString(n)>>

\* key.includes(value)
Includes(key, value) ==
    \E i \in 0..(Len(key) - Len(value)) :
        \A j \in 1..Len(value) : key[i + j] = value[j]

Range(f) == {f[i] : i \in DOMAIN f}

---------------------------------------------------------------------------
(* CheckResult: retryAfter is {} when undefined, {n} when present *)

CheckResult(allowed, limit, remaining, resetAt, retryAfter, currentUsage) ==
    [allowed |-> allowed, limit |-> limit, remaining |-> remaining,
     resetAt |-> resetAt, retryAfter |-> retryAfter,
     currentUsage |-> currentUsage]

\* Math.floor(now / (window * 1000)) * (window * 1000)
WindowStart(now, window) ==
    (now \div (window * MsPerSec)) * (window * MsPerSec)

\* variant of SecondsUntil: Math.floor in place of Math.ceil
SecondsUntilFloor(resetAt, now) == Floor(<<resetAt - now, MsPerSec>>)

\* Math.ceil((resetAt.getTime() - now) / 1000)
SecondsUntil(resetAt, now) == Ceil(<<resetAt - now, MsPerSec>>)

---------------------------------------------------------------------------
(* Fixed window *)

FixedWindowKey(key, windowStart) ==
    Colon(<<"rl:fixed_window:">> \o key, NumStr(windowStart))

\* the Lua script: GET, compare, INCR + EXPIRE, as one step of the store
FixedWindowScript(store, redisKey, limit, window) ==
    LET got     == GetCount(store, redisKey)
        current == IF got = {} THEN 0 ELSE CHOOSE n \in got : TRUE
    IN  IF current < limit
        THEN [allowed |-> 1, new_count |-> current + 1,
              store |-> StoreSet(store, redisKey, current + 1, window)]
        ELSE [allowed |-> 0, new_count |-> current, store |-> store]

FixedRetryAfter(allowed, resetAt, now) ==
    IF allowed = 0 THEN {SecondsUntil(resetAt, now)} ELSE {}

\* FixedWindowLimiter.check, from the captured now on
FixedWindowCheck(store, key, limit, window, now) ==
    LET windowStart == WindowStart(now, window)
        r           == FixedWindowScript(store,
                                         FixedWindowKey(key, windowStart),
                                         limit, window)
        resetAt     == windowStart + window * MsPerSec
    IN  [store  |-> r.store,
         result |-> CheckResult(r.allowed = 1, limit,
                                Max(0, limit - r.new_count), resetAt,
                                FixedRetryAfter(r.allowed, resetAt, now),
                                r.new_count)]

---------------------------------------------------------------------------
(* Sliding window *)

SlidingWindowKey(key, windowStart) ==
    Colon(<<"rl:sliding_window:">> \o key, NumStr(windowStart))

\* variant of EstimatedCount: the previous window counts in full
WholePreviousCount(current_count, previous_count, now, current_window, window) ==
    RInt(previous_count + current_count)

\* variant of EstimatedCount: the previous window carries no weight
CurrentCountOnly(current_count, previous_count, now, current_window, window) ==
    RInt(current_count)

\* previous_count * (1 - elapsed) + current_count
EstimatedCount(current_count, previous_count, now, current_window, window) ==
    LET elapsed == Rat(now - current_window, window * MsPerSec)
    IN  RAdd(RMul(RInt(previous_count), RSub(RInt(1), elapsed)),
             RInt(current_count))

SlidingWindowScript(store, current_key, previous_key, limit, window, now, current_window) ==
    LET gotC == GetCount(store, current_key)
        gotP == GetCount(store, previous_key)
        current_count  == IF gotC = {} THEN 0 ELSE CHOOSE n \in gotC : TRUE
        previous_count == IF gotP = {} THEN 0 ELSE CHOOSE n \in gotP : TRUE
        estimated_count == EstimatedCount(current_count, previous_count, now,
                                          current_window, window)
    IN  IF RLess(estimated_count, RInt(limit))
        THEN [allowed |-> 1, estimated |-> Floor(estimated_count),
              new_count |-> current_count + 1,
              store |-> StoreSet(store, current_key, current_count + 1,
                                 window * 2)]
        ELSE [allowed |-> 0, estimated |-> Floor(estimated_count),
              new_count |-> current_count, store |-> store]

SlidingRetryAfter(allowed, resetAt, now) ==
    IF allowed = 0 THEN {SecondsUntil(resetAt, now)} ELSE {}

\* SlidingWindowLimiter.check, from the captured now on
SlidingWindowCheck(store, key, limit, window, now) ==
    LET currentWindow  == WindowStart(now, window)
        previousWindow == currentWindow - window * MsPerSec
        r == SlidingWindowScript(store, SlidingWindowKey(key, currentWindow),
                                 SlidingWindowKey(key, previousWindow),
                                 limit, window, now, currentWindow)
        resetAt == currentWindow + window * MsPerSec
    IN  [store  |-> r.store,
         result |-> CheckResult(r.allowed = 1, limit,
                                Max(0, limit - r.estimated), resetAt,
                                SlidingRetryAfter(r.allowed, resetAt, now),
                                r.estimated)]

---------------------------------------------------------------------------
(* Token bucket *)

TokenBucketKey(key) == <<"rl:token_bucket:">> \o key

\* variant of Refill: only whole tokens are kept
RefillWholeTokens(tokens, last_update, now, limit, window) ==
    RInt(Floor(RMin(RInt(limit),
                    RAdd(tokens, RMul(Rat(now - last_update, MsPerSec),
                                      Rat(limit, window))))))

\* tokens after the refill: math.min(limit, tokens + elapsed * rate), with
\* elapsed = (now - last_update) / 1000 and rate = limit / window
Refill(tokens, last_update, now, limit, window) ==
    RMin(RInt(limit),
         RAdd(tokens, RMul(Rat(now - last_update, MsPerSec),
                           Rat(limit, window))))

\* variant of TakesToken: tokens > 1 in place of tokens >= 1
TakesTokenAboveOne(tokens) == RLess(RInt(1), tokens)

\* if tokens >= 1
TakesToken(tokens) == ~RLess(tokens, RInt(1))

\* the Lua script: HMGET, refill, take a token, HMSET + EXPIRE.  HMSET
\* writes a number as %.17g text and tonumber reads it back unchanged.
TokenBucketScript(store, redisKey, limit, window, now) ==
    LET fresh       == ~Live(store, redisKey)
        tokens0     == IF fresh THEN RInt(limit) ELSE store[redisKey].val.tokens
        last_update == IF fresh THEN now ELSE store[redisKey].val.last_update
        tokens1     == Refill(tokens0, last_update, now, limit, window)
        take        == TakesToken(tokens1)
        tokens2     == IF take THEN RSub(tokens1, RInt(1)) ELSE tokens1
    IN  [allowed   |-> IF take THEN 1 ELSE 0,
         remaining |-> Floor(tokens2),
         tokens    |-> ToInteger(tokens2),
         store     |-> StoreSet(store, redisKey,
                                [tokens |-> tokens2, last_update |-> now],
                                window * 2)]

\* Math.ceil((1 - currentTokens) / (limit / window))
TokenRetryAfter(allowed, currentTokens, limit, window) ==
    IF allowed = 0
    THEN {Ceil(Rat((1 - currentTokens) * window, limit))}
    ELSE {}

\* TokenBucketLimiter.check, from the captured now on
TokenBucketCheck(store, key, limit, window, now) ==
    LET r == TokenBucketScript(store, TokenBucketKey(key), limit, window, now)
    IN  [store  |-> r.store,
         result |-> CheckResult(r.allowed = 1, limit, r.remaining,
                                now + window * MsPerSec,
                                TokenRetryAfter(r.allowed, r.tokens, limit,
                                                window),
                                limit - r.remaining)]

---------------------------------------------------------------------------
(* Rules.  An optional field is {} when absent and {v} when present.       *)
(* A timestamp is [type, ms]: a Date in memory, an ISO string once it has  *)
(* been through JSON.                                                      *)

Instances == {1, 2}
RuleIds == {"r1", "r2"}
\* ids that clients supply; uuidv4() gives the others
ClientIds == {"r1"}
\* subject keys and endpoints of check requests, values of KeyConfig
SubjectKeys == {<<"a">>, <<"b">>}
Endpoints == {<<"e">>, <<"e", ":", "0">>}
KeyValues == {<<"a">>}

DefaultThresholds == <<80, 90, 100>>

Some(opt) == CHOOSE v \in opt : TRUE

Date(ms) == [type |-> "Date", ms |-> ms]

\* JSON.stringify then JSON.parse of a Rule: a Date comes back as a string
ToJSON(rule) ==
    [rule EXCEPT !.createdAt = [type |-> "string", ms |-> rule.createdAt.ms],
                 !.updatedAt = [type |-> "string", ms |-> rule.updatedAt.ms]]

RuleSchemaAny(rule) == TRUE

\* RuleSchema.parse accepts the rule
RuleSchemaOk(rule) ==
    /\ rule.algorithm \in Algorithms
    /\ rule.limit > 0
    /\ rule.window > 0
    /\ Len(rule.keys) >= 1
    /\ \A i \in DOMAIN rule.thresholds :
            rule.thresholds[i] >= 0 /\ rule.thresholds[i] <= 100
    /\ rule.createdAt.type = "Date"
    /\ rule.updatedAt.type = "Date"

RuleKey(id) == <<"rule:", id>>

\* RuleCache.get: the cache is a Map, kept here in insertion order
CacheGet(i, id) == {cache[i][n] : n \in {m \in DOMAIN cache[i] : cache[i][m].id = id}}

\* RuleCache.set: a known id keeps its place, a new one goes last
CacheSet(rules, rule) ==
    IF \E n \in DOMAIN rules : rules[n].id = rule.id
    THEN [n \in DOMAIN rules |-> IF rules[n].id = rule.id THEN rule ELSE rules[n]]
    ELSE Append(rules, rule)

\* RuleCache.delete
CacheDelete(rules, id) == SelectSeq(rules, LAMBDA r : r.id # id)

KeyConfigMatchesWhole(keyConfig, key) ==
    keyConfig.value = <<"*">> \/ key = keyConfig.value

\* a KeyConfig matches the key
KeyConfigMatches(keyConfig, key) ==
    keyConfig.value = <<"*">> \/ Includes(key, keyConfig.value)

RuleMatches(rule, key) ==
    /\ rule.enabled
    /\ \E n \in DOMAIN rule.keys : KeyConfigMatches(rule.keys[n], key)

\* RuleCache.findByKey: the first rule in insertion order that matches
FindByKey(i, key) ==
    LET hits == {n \in DOMAIN cache[i] : RuleMatches(cache[i][n], key)}
    IN  IF hits = {} THEN {}
        ELSE {cache[i][CHOOSE n \in hits : \A m \in hits : n <= m]}

GetRuleNoFill(i, id) ==
    IF CacheGet(i, id) # {}
    THEN [rule |-> CacheGet(i, id), rules |-> cache[i], reads |-> 1]
    ELSE IF ~Live(redis, RuleKey(id))
         THEN [rule |-> {}, rules |-> cache[i], reads |-> 2]
         ELSE [rule  |-> {redis[RuleKey(id)].val}, rules |-> cache[i],
               reads |-> 2]

\* RuleService.getRule: cache first, then the store, filling the cache.
\* reads counts the cache and store reads made.
GetRule(i, id) ==
    IF CacheGet(i, id) # {}
    THEN [rule |-> CacheGet(i, id), rules |-> cache[i], reads |-> 1]
    ELSE IF ~Live(redis, RuleKey(id))
         THEN [rule |-> {}, rules |-> cache[i], reads |-> 2]
         ELSE [rule  |-> {redis[RuleKey(id)].val},
               rules |-> CacheSet(cache[i], redis[RuleKey(id)].val),
               reads |-> 2]

---------------------------------------------------------------------------
(* RateLimiterService.check: resolution *)

Resolved(algorithm, limit, window, rules, reads) ==
    [error |-> {}, algorithm |-> algorithm, limit |-> limit,
     window |-> window, rules |-> rules, reads |-> reads]

Failed(message, rules, reads) ==
    [error |-> {message}, algorithm |-> "none", limit |-> 0, window |-> 0,
     rules |-> rules, reads |-> reads]

\* variant of ResolveByRuleId: the enabled flag of the rule is not looked at
ResolveByRuleIdAnyState(i, request) ==
    LET got == GetRule(i, Some(request.ruleId))
    IN  IF got.rule = {}
        THEN Failed("Rule not found", got.rules, got.reads)
        ELSE Resolved(Some(got.rule).algorithm, Some(got.rule).limit,
                      Some(got.rule).window, got.rules, got.reads)

\* if (request.ruleId) ... : the rule named by the request
ResolveByRuleId(i, request) ==
    LET got == GetRule(i, Some(request.ruleId))
    IN  IF got.rule = {}
        THEN Failed("Rule not found", got.rules, got.reads)
        ELSE IF ~Some(got.rule).enabled
        THEN Failed("Rule is disabled", got.rules, got.reads)
        ELSE Resolved(Some(got.rule).algorithm, Some(got.rule).limit,
                      Some(got.rule).window, got.rules, got.reads)

\* else if (request.algorithm && request.limit && request.window)
HasInline(request) ==
    request.algorithm # {} /\ request.limit # {} /\ request.window # {}

ResolveInline(i, request) ==
    Resolved(Some(request.algorithm), Some(request.limit),
             Some(request.window), cache[i], 0)

\* else: findMatchingRule(request.key, request.endpoint)
ResolveByMatch(i, request) ==
    LET matchingRule == FindByKey(i, request.key)
    IN  IF matchingRule = {}
        THEN Failed("No matching rule found and no inline parameters provided",
                    cache[i], 1)
        ELSE Resolved(Some(matchingRule).algorithm, Some(matchingRule).limit,
                      Some(matchingRule).window, cache[i], 1)

\* variant of Resolve: inline parameters looked at before ruleId
ResolveInlineFirst(i, request) ==
    IF HasInline(request) THEN ResolveInline(i, request)
    ELSE IF request.ruleId # {} THEN ResolveByRuleId(i, request)
    ELSE ResolveByMatch(i, request)

Resolve(i, request) ==
    IF request.ruleId # {} THEN ResolveByRuleId(i, request)
    ELSE IF HasInline(request) THEN ResolveInline(i, request)
    ELSE ResolveByMatch(i, request)

\* variant of FullKey: the endpoint is left out of the key
FullKeyWithoutEndpoint(request) == request.key

\* request.endpoint ? `${request.key}:${request.endpoint}` : request.key
FullKey(request) ==
    IF request.endpoint # {} /\ Some(request.endpoint) # <<>>
    THEN Colon(request.key, Some(request.endpoint))
    ELSE request.key

---------------------------------------------------------------------------
(* Actions *)

Init ==
    /\ clock = 0
    /\ redis = <<>>
    /\ cache = [i \in Instances |-> <<>>]
    /\ pending = EmptyBag
    /\ log = <<>>
    /\ errors = <<>>
    /\ lookups = 0
    /\ nextId = 0
    /\ ruleOps = 0
    /\ last = <<>>
    /\ faults = 0
    /\ ret = [op |-> "none", inst |-> 0, arg |-> <<>>, value |-> {},
              threw |-> FALSE]
    /\ hooks = [jobs |-> <<>>, wait |-> <<>>, added |-> 0, sent |-> <<>>]
    /\ calls = <<>>

\* time passes; the store drops the keys that have expired.  No call in
\* flight is older than latencyTicks ticks.
Lapse(latencyTicks) ==
    /\ \A c \in BagToSet(pending) :
            clock + TickMs - c.now <= latencyTicks * TickMs
    /\ clock' = clock + TickMs
    /\ redis' = Purge(clock + TickMs)
    /\ UNCHANGED <<cache, pending, log, errors, lookups, nextId, ruleOps, last,
                   faults, ret, hooks, calls>>

\* time passes while the store answers promptly
Elapse == Lapse(MaxLatencyTicks)

\* time passes within the period a behaviour of the engine covers
Tick ==
    /\ clock < MaxTime
    /\ Elapse

\* RateLimiterService.check on instance i, up to the evalScript it awaits:
\* resolution, AlgorithmFactory.get, fullKey, and limiter.check reading
\* Date.now().  A failed resolution throws.
Check(i, request) ==
    LET r == Resolve(i, request)
    IN  /\ nextId < MaxChecks
        /\ nextId' = nextId + 1
        /\ cache' = [cache EXCEPT ![i] = r.rules]
        /\ lookups' = lookups + r.reads
        /\ IF r.error = {}
           THEN /\ pending' = pending (+) SetToBag(
                       {[algorithm |-> r.algorithm, key |-> FullKey(request),
                         limit |-> r.limit, window |-> r.window,
                         now |-> clock]})
                /\ UNCHANGED errors
           ELSE /\ errors' = Append(errors, Some(r.error))
                /\ UNCHANGED pending
        /\ last' = [inst |-> i, request |-> request]
        /\ UNCHANGED <<clock, redis, log, ruleOps, faults, ret, hooks, calls>>

\* the store runs the script of call c; the caller builds the CheckResult
Complete(c, out) ==
    /\ redis' = out.store
    /\ log' = Append(log, [key |-> c.key, algorithm |-> c.algorithm,
                           limit |-> c.limit, window |-> c.window,
                           now |-> c.now, at |-> clock,
                           result |-> out.result])
    /\ pending' = pending (-) SetToBag({c})
    /\ UNCHANGED <<clock, cache, errors, lookups, nextId, ruleOps, last, faults,
                   ret, hooks, calls>>

ExecFixedWindow(c) ==
    /\ BagIn(c, pending)
    /\ c.algorithm = "fixed_window"
    /\ Complete(c, FixedWindowCheck(redis, c.key, c.limit, c.window, c.now))

ExecSlidingWindow(c) ==
    /\ BagIn(c, pending)
    /\ c.algorithm = "sliding_window"
    /\ Complete(c, SlidingWindowCheck(redis, c.key, c.limit, c.window, c.now))

ExecTokenBucket(c) ==
    /\ BagIn(c, pending)
    /\ c.algorithm = "token_bucket"
    /\ Complete(c, TokenBucketCheck(redis, c.key, c.limit, c.window, c.now))

\* AlgorithmFactory.create: the limiter of call c, run on a key space
RunLimiter(store, c) ==
    CASE c.algorithm = "fixed_window" ->
            FixedWindowCheck(store, c.key, c.limit, c.window, c.now)
      [] c.algorithm = "sliding_window" ->
            SlidingWindowCheck(store, c.key, c.limit, c.window, c.now)
      [] c.algorithm = "token_bucket" ->
            TokenBucketCheck(store, c.key, c.limit, c.window, c.now)

\* the error with which client.eval rejects
StoreError == "Connection is closed."

\* variant of EvalScriptFails: the error is caught and the check is denied
EvalScriptFailsClosed(c, ran) ==
    /\ BagIn(c, pending)
    /\ pending' = pending (-) SetToBag({c})
    /\ log' = Append(log, [key |-> c.key, algorithm |-> c.algorithm,
                           limit |-> c.limit, window |-> c.window,
                           now |-> c.now, at |-> clock,
                           result |-> CheckResult(FALSE, c.limit, 0, c.now,
                                                  {1}, c.limit)])
    /\ redis' = IF ran THEN RunLimiter(redis, c).store ELSE redis
    /\ faults' = faults + 1
    /\ UNCHANGED <<clock, cache, errors, lookups, nextId, ruleOps, last, ret, hooks, calls>>

\* the evalScript of call c rejects (the connection to the store is lost):
\* limiter.check and RateLimiterService.check reject with that error.  The
\* script has run at the store (ran) or has not, the caller cannot tell.
EvalScriptFails(c, ran) ==
    /\ BagIn(c, pending)
    /\ pending' = pending (-) SetToBag({c})
    /\ errors' = Append(errors, StoreError)
    /\ redis' = IF ran THEN RunLimiter(redis, c).store ELSE redis
    /\ faults' = faults + 1
    /\ UNCHANGED <<clock, cache, log, lookups, nextId, ruleOps, last, ret, hooks, calls>>

Absent == {}

InlineRequest(key, algorithm, limit, window) ==
    [key |-> key, endpoint |-> Absent, ruleId |-> Absent,
     algorithm |-> {algorithm}, limit |-> {limit}, window |-> {window}]

\* algorithm, limit and window of the calls made so far
Configs ==
    {<<c.algorithm, c.limit, c.window>> : c \in BagToSet(pending) \cup Range(log)}

\* One subject checked under one algorithm, limit and window throughout.
CheckSubject ==
    \E i \in Instances, a \in Algorithms, l \in Limits, w \in Windows :
        /\ Configs \subseteq {<<a, l, w>>}
        /\ Check(i, InlineRequest(<<"a">>, a, l, w))

Next ==
    \/ Tick
    \/ CheckSubject
    \/ \E c \in BagToSet(pending) : ExecFixedWindow(c)
    \/ \E c \in BagToSet(pending) : ExecSlidingWindow(c)
    \/ \E c \in BagToSet(pending) : ExecTokenBucket(c)

Spec == Init /\ [][Next]_vars

---------------------------------------------------------------------------
(* The rule service and the orchestrator on top of the engine.  Each       *)
(* RuleService method runs here as one step: its cache and store accesses  *)
(* are not interleaved with other calls.  Resolution and rule management   *)
(* do not read the clock, so the behaviours of SpecSvc take place at one   *)
(* instant; the passing of time is the subject of Spec.                    *)

\* rule mutations in one behaviour
MaxRuleOps == 2
\* checks in one behaviour of the service
MaxSvcChecks == 2

KeyConfigs == {<<[type |-> "user", value |-> v]>> : v \in KeyValues}

\* CreateRuleRequest
CreateRequests ==
    [id : {Absent} \cup {{r} : r \in ClientIds},
     algorithm : {"fixed_window"}, limit : {2},
     window : Windows, keys : KeyConfigs, enabled : {Absent, {FALSE}},
     thresholds : {Absent}, webhookUrl : {Absent}]

\* UpdateRuleRequest
NoUpdate ==
    [algorithm |-> Absent, limit |-> Absent, window |-> Absent,
     keys |-> Absent, enabled |-> Absent, thresholds |-> Absent,
     webhookUrl |-> Absent]

UpdateRequests ==
    {[NoUpdate EXCEPT !.enabled = {b}] : b \in BOOLEAN} \cup
    {[NoUpdate EXCEPT !.algorithm = {"sliding_window"}]}

\* CheckRequest: no inline parameters, some of them, all of them
Inlines ==
    {[algorithm |-> Absent, limit |-> Absent, window |-> Absent],
     [algorithm |-> {"token_bucket"}, limit |-> Absent, window |-> {1}],
     [algorithm |-> {"token_bucket"}, limit |-> {1}, window |-> {1}]}

CheckRequests ==
    {[key |-> k, endpoint |-> Absent, ruleId |-> r,
      algorithm |-> p.algorithm, limit |-> p.limit, window |-> p.window] :
        k \in SubjectKeys, r \in {Absent} \cup {{x} : x \in RuleIds},
        p \in Inlines}

\* rule ids held by some cache or by the store
KnownIds ==
    {r \in RuleIds : RuleKey(r) \in DOMAIN redis \/
                     \E i \in Instances : CacheGet(i, r) # {}}

\* the rule createRule builds from the request and the generated id
NewRule(request, uuid) ==
    [id |-> IF request.id # {} THEN Some(request.id) ELSE uuid,
     algorithm |-> request.algorithm, limit |-> request.limit,
     window |-> request.window, keys |-> request.keys,
     enabled |-> IF request.enabled # {} THEN Some(request.enabled) ELSE TRUE,
     thresholds |-> IF request.thresholds # {} THEN Some(request.thresholds)
                    ELSE DefaultThresholds,
     webhookUrl |-> request.webhookUrl,
     createdAt |-> Date(clock), updatedAt |-> Date(clock)]

MergeRuleRestamped(existing, update, id) ==
    [existing EXCEPT
        !.algorithm = IF update.algorithm # {} THEN Some(update.algorithm) ELSE @,
        !.limit = IF update.limit # {} THEN Some(update.limit) ELSE @,
        !.window = IF update.window # {} THEN Some(update.window) ELSE @,
        !.keys = IF update.keys # {} THEN Some(update.keys) ELSE @,
        !.enabled = IF update.enabled # {} THEN Some(update.enabled) ELSE @,
        !.thresholds = IF update.thresholds # {} THEN Some(update.thresholds) ELSE @,
        !.webhookUrl = IF update.webhookUrl # {} THEN update.webhookUrl ELSE @,
        !.id = id,
        !.createdAt = Date(clock),
        !.updatedAt = Date(clock)]

\* { ...existing, ...update, id, updatedAt: new Date() }
MergeRule(existing, update, id) ==
    [existing EXCEPT
        !.algorithm = IF update.algorithm # {} THEN Some(update.algorithm) ELSE @,
        !.limit = IF update.limit # {} THEN Some(update.limit) ELSE @,
        !.window = IF update.window # {} THEN Some(update.window) ELSE @,
        !.keys = IF update.keys # {} THEN Some(update.keys) ELSE @,
        !.enabled = IF update.enabled # {} THEN Some(update.enabled) ELSE @,
        !.thresholds = IF update.thresholds # {} THEN Some(update.thresholds) ELSE @,
        !.webhookUrl = IF update.webhookUrl # {} THEN update.webhookUrl ELSE @,
        !.id = id,
        !.updatedAt = Date(clock)]

\* storage.set(`rule:${id}`, JSON.stringify(rule)): no ttl
StorePut(store, rule) ==
    [j \in DOMAIN store \cup {RuleKey(rule.id)} |->
        IF j = RuleKey(rule.id)
        THEN [val |-> ToJSON(rule), exp |-> NoExpiry]
        ELSE store[j]]

StoreKeep(store, id) == store

\* storage.del(`rule:${id}`)
StoreDel(store, id) == [j \in DOMAIN store \ {RuleKey(id)} |-> store[j]]

\* what a RuleService call leaves in ret: value is {} for null or undefined
Returned(op, i, arg, value) ==
    [op |-> op, inst |-> i, arg |-> arg, value |-> value, threw |-> FALSE]

Threw(op, i, arg) ==
    [op |-> op, inst |-> i, arg |-> arg, value |-> {}, threw |-> TRUE]

\* RuleService.createRule on instance i; uuid is what uuidv4() returns
CreateRule(i, request, uuid) ==
    LET rule == NewRule(request, uuid)
    IN  /\ ruleOps' = ruleOps + 1
        /\ request.id = {} => uuid \in RuleIds \ (ClientIds \cup KnownIds)
        /\ IF RuleSchemaOk(rule)
           THEN /\ cache' = [cache EXCEPT ![i] = CacheSet(@, rule)]
                /\ redis' = StorePut(redis, rule)
                /\ ret' = Returned("createRule", i, request, {rule})
                /\ UNCHANGED errors
           ELSE /\ errors' = Append(errors, "ZodError")
                /\ ret' = Threw("createRule", i, request)
                /\ UNCHANGED <<cache, redis>>
        /\ UNCHANGED <<clock, pending, log, lookups, nextId, last, faults, hooks, calls>>

\* RuleService.updateRule on instance i
UpdateRule(i, id, update) ==
    LET got     == GetRule(i, id)
        updated == MergeRule(Some(got.rule), update, id)
    IN  /\ ruleOps' = ruleOps + 1
        /\ lookups' = lookups + got.reads
        /\ IF got.rule = {}
           THEN /\ ret' = Returned("updateRule", i, <<id, update>>, {})
                /\ UNCHANGED <<cache, redis, errors>>
           ELSE IF RuleSchemaOk(updated)
           THEN /\ cache' = [cache EXCEPT ![i] = CacheSet(got.rules, updated)]
                /\ redis' = StorePut(redis, updated)
                /\ ret' = Returned("updateRule", i, <<id, update>>, {updated})
                /\ UNCHANGED errors
           ELSE /\ cache' = [cache EXCEPT ![i] = got.rules]
                /\ errors' = Append(errors, "ZodError")
                /\ ret' = Threw("updateRule", i, <<id, update>>)
                /\ UNCHANGED redis
        /\ UNCHANGED <<clock, pending, log, nextId, last, faults, hooks, calls>>

\* RuleService.deleteRule on instance i
DeleteRule(i, id) ==
    LET got == GetRule(i, id)
    IN  /\ ruleOps' = ruleOps + 1
        /\ lookups' = lookups + got.reads
        /\ ret' = Returned("deleteRule", i, id, got.rule # {})
        /\ IF got.rule = {}
           THEN UNCHANGED <<cache, redis>>
           ELSE /\ cache' = [cache EXCEPT ![i] = CacheDelete(got.rules, id)]
                /\ redis' = StoreDel(redis, id)
        /\ UNCHANGED <<clock, pending, log, errors, nextId, last, faults, hooks, calls>>

SvcCheck ==
    \E i \in Instances, request \in CheckRequests :
        /\ nextId < MaxSvcChecks
        /\ Check(i, request)

SvcNext ==
    \/ SvcCheck
    \/ \E i \in Instances, request \in CreateRequests, uuid \in RuleIds :
            ruleOps < MaxRuleOps /\ CreateRule(i, request, uuid)
    \/ \E i \in Instances, id \in RuleIds, update \in UpdateRequests :
            ruleOps < MaxRuleOps /\ UpdateRule(i, id, update)
    \/ \E i \in Instances, id \in RuleIds :
            ruleOps < MaxRuleOps /\ DeleteRule(i, id)
    \/ \E c \in BagToSet(pending), ran \in BOOLEAN : EvalScriptFails(c, ran)
    \/ \E c \in BagToSet(pending) : ExecFixedWindow(c)
    \/ \E c \in BagToSet(pending) : ExecSlidingWindow(c)
    \/ \E c \in BagToSet(pending) : ExecTokenBucket(c)

SpecSvc == Init /\ [][SvcNext]_vars

---------------------------------------------------------------------------
(* The rule service alone, with reads and restarts: SpecRules *)

\* clock steps in one behaviour of SpecRules
MaxRuleTicks == 1
\* createRule, updateRule and deleteRule calls in one behaviour of SpecRules
MaxRuleCalls == 3
\* getRule is called while fewer than this many rule lookups were made
MaxLookups == 2

\* SpecRules follows one process through its restarts
RuleProcesses == {1}

\* values of KeyConfig and keys looked up in SpecRules
MatchValues == {<<"*">>, <<"4", "2">>}
MatchKeys == {<<"u", ":", "4", "2">>, <<"u", ":", "4", "2", "0", "0">>,
              <<"u", ":", "7">>}

\* CreateRuleRequest as the rule routes pass it on
ValidRuleRequests ==
    [id : {Absent} \cup {{r} : r \in ClientIds},
     algorithm : {"fixed_window"}, limit : {2}, window : Windows,
     keys : {<<[type |-> "user", value |-> v]>> : v \in MatchValues},
     enabled : {Absent, {FALSE}},
     thresholds : {Absent}, webhookUrl : {Absent}]

\* requests of the type CreateRuleRequest that RuleSchema does not accept
InvalidRuleRequests ==
    LET request == [id |-> Absent, algorithm |-> "fixed_window", limit |-> 2,
                    window |-> 1, keys |-> <<[type |-> "user", value |-> <<"*">>]>>,
                    enabled |-> Absent, thresholds |-> Absent,
                    webhookUrl |-> Absent]
    IN  {[request EXCEPT !.limit = 0], [request EXCEPT !.window = -1],
         [request EXCEPT !.keys = <<>>],
         [request EXCEPT !.thresholds = {<<80, 101>>}]}

RuleRequests == ValidRuleRequests \cup InvalidRuleRequests

\* UpdateRuleRequest: the partials of the service, and partials that make
\* the merged rule one RuleSchema does not accept
RuleUpdates ==
    UpdateRequests \cup
    {[NoUpdate EXCEPT !.limit = {0}], [NoUpdate EXCEPT !.thresholds = {<<-1>>}]}

\* RuleService.getRule called on instance i
GetRuleCall(i, id) ==
    LET got == GetRule(i, id)
    IN  /\ cache' = [cache EXCEPT ![i] = got.rules]
        /\ lookups' = lookups + got.reads
        /\ ret' = Returned("getRule", i, id, got.rule)
        /\ UNCHANGED <<clock, redis, pending, log, errors, nextId, ruleOps,
                       last, faults, hooks, calls>>

\* RuleService.getAllRules called on instance i
GetAllRules(i) ==
    /\ ret' = Returned("getAllRules", i, <<>>, cache[i])
    /\ UNCHANGED <<clock, redis, cache, pending, log, errors, lookups, nextId,
                   ruleOps, last, faults, hooks, calls>>

\* RuleService.findMatchingRule called on instance i
FindMatchingRule(i, key, endpoint) ==
    /\ ret' = Returned("findMatchingRule", i, <<key, endpoint>>,
                       FindByKey(i, key))
    /\ UNCHANGED <<clock, redis, cache, pending, log, errors, lookups, nextId,
                   ruleOps, last, faults, hooks, calls>>

\* the process of instance i restarts: a new RuleService with an empty cache
Restart(i) ==
    /\ cache[i] # <<>>
    /\ cache' = [cache EXCEPT ![i] = <<>>]
    /\ UNCHANGED <<clock, redis, pending, log, errors, lookups, nextId,
                   ruleOps, last, faults, ret, hooks, calls>>

RulesNext ==
    \/ clock < MaxRuleTicks * TickMs /\ Tick
    \/ \E i \in RuleProcesses, request \in RuleRequests, uuid \in RuleIds :
            ruleOps < MaxRuleCalls /\ CreateRule(i, request, uuid)
    \/ \E i \in RuleProcesses, id \in RuleIds, update \in RuleUpdates :
            ruleOps < MaxRuleCalls /\ UpdateRule(i, id, update)
    \/ \E i \in RuleProcesses, id \in RuleIds :
            ruleOps < MaxRuleCalls /\ DeleteRule(i, id)
    \/ \E i \in RuleProcesses, id \in RuleIds :
            lookups < MaxLookups /\ GetRuleCall(i, id)
    \/ \E i \in RuleProcesses : GetAllRules(i)
    \/ \E i \in RuleProcesses, key \in MatchKeys, endpoint \in {Absent} :
            FindMatchingRule(i, key, endpoint)
    \/ \E i \in RuleProcesses : Restart(i)

SpecRules == Init /\ [][RulesNext]_vars

---------------------------------------------------------------------------
(* The REST routes in front of the services: SpecRoutes *)

\* checks and rejections in one behaviour of SpecRoutes
MaxRouteChecks == 2
MaxRejections == 2

\* CheckRequestSchema.parse accepts the body
CheckRequestSchemaOk(body) ==
    /\ Len(body.key) >= 1
    /\ body.algorithm \subseteq Algorithms
    /\ \A l \in body.limit : l > 0
    /\ \A w \in body.window : w > 0

\* CreateRuleSchema.parse accepts the body
CreateRuleSchemaOk(body) ==
    /\ body.algorithm \in Algorithms
    /\ body.limit > 0
    /\ body.window > 0
    /\ Len(body.keys) >= 1
    /\ \A t \in body.thresholds : \A n \in DOMAIN t : t[n] >= 0 /\ t[n] <= 100

\* UpdateRuleSchema.parse accepts the body: every field is optional
UpdateRuleSchemaOk(body) ==
    /\ body.algorithm \subseteq Algorithms
    /\ \A l \in body.limit : l > 0
    /\ \A w \in body.window : w > 0
    /\ \A k \in body.keys : Len(k) >= 1
    /\ \A t \in body.thresholds : \A n \in DOMAIN t : t[n] >= 0 /\ t[n] <= 100

\* bodies posted to /v1/check: one the schema accepts and some it rejects
CheckBodies ==
    LET body == InlineRequest(<<"a">>, "fixed_window", 1, 1)
    IN  {body, [body EXCEPT !.key = <<>>], [body EXCEPT !.limit = {0}],
         [body EXCEPT !.algorithm = {"leaky_bucket"}]}

\* the catch of a route handler: reply.status(400), nothing else done
Reply400(op, i, body) ==
    /\ errors' = Append(errors, "ZodError")
    /\ ret' = Threw(op, i, body)
    /\ UNCHANGED <<clock, redis, cache, pending, log, lookups, nextId, ruleOps,
                   last, faults, hooks, calls>>

\* POST /v1/check
CheckRoute(i, body) ==
    IF CheckRequestSchemaOk(body)
    THEN nextId < MaxRouteChecks /\ Check(i, body)
    ELSE Reply400("check", i, body)

\* POST /v1/rules
CreateRoute(i, body, uuid) ==
    IF CreateRuleSchemaOk(body)
    THEN ruleOps < MaxRuleCalls /\ CreateRule(i, body, uuid)
    ELSE Reply400("createRule", i, body)

\* PUT /v1/rules/:id
UpdateRoute(i, id, body) ==
    IF UpdateRuleSchemaOk(body)
    THEN ruleOps < MaxRuleCalls /\ UpdateRule(i, id, body)
    ELSE Reply400("updateRule", i, <<id, body>>)

RoutesNext ==
    \/ \E i \in RuleProcesses, body \in CheckBodies :
            Len(errors) < MaxRejections /\ CheckRoute(i, body)
    \/ \E c \in BagToSet(pending) : ExecFixedWindow(c)
    \/ \E i \in RuleProcesses, body \in RuleRequests, uuid \in RuleIds :
            Len(errors) < MaxRejections /\ CreateRoute(i, body, uuid)
    \/ \E i \in RuleProcesses, id \in RuleIds, body \in RuleUpdates :
            Len(errors) < MaxRejections /\ UpdateRoute(i, id, body)
    \/ \E i \in RuleProcesses : Restart(i)

SpecRoutes == Init /\ [][RoutesNext]_vars

---------------------------------------------------------------------------
(* WebhookNotifier.shouldNotify, a pure function: SpecNotify *)

\* lengths of the threshold lists and the usages tried
MaxThresholds == 3
MaxUsage == 5

\* thresholds.filter(t => percentage >= t)
Crossed(percentage, thresholds) ==
    SelectSeq(thresholds, LAMBDA t : ~RLess(percentage, RInt(t)))

\* the place of t in a descending sequence: after the elements not below it
InsertDescending(seq, t) ==
    LET n == Cardinality({m \in DOMAIN seq : seq[m] >= t})
    IN  SubSeq(seq, 1, n) \o <<t>> \o SubSeq(seq, n + 1, Len(seq))

LeftAsIs(seq) == seq

\* .sort((a, b) => b - a)
RECURSIVE SortDescending(_)
SortDescending(seq) ==
    IF seq = <<>> THEN <<>>
    ELSE InsertDescending(SortDescending(SubSeq(seq, 1, Len(seq) - 1)),
                          seq[Len(seq)])

\* shouldNotify: {} stands for null
ShouldNotify(currentUsage, limit, thresholds) ==
    LET percentage        == RMul(Rat(currentUsage, limit), RInt(100))
        crossedThresholds == SortDescending(Crossed(percentage, thresholds))
    IN  IF Len(crossedThresholds) > 0 THEN {crossedThresholds[1]} ELSE {}

\* thresholds as RuleSchema admits them, in any order and repeated
ThresholdLists ==
    UNION {[1..n -> {0, 50, 80, 100}] : n \in 0..MaxThresholds}

\* the calls made: usages against small limits, and usages in percent
NotifyInputs ==
    {<<u, l, t>> : u \in 0..MaxUsage, l \in {1, 2, 4}, t \in ThresholdLists}
        \cup {<<u, 100, t>> : u \in {10, 85, 100},
                               t \in {<<80, 90, 100>>, <<100, 80, 90>>}}

ShouldNotifyCall(currentUsage, limit, thresholds) ==
    /\ ret' = Returned("shouldNotify", 0, <<currentUsage, limit, thresholds>>,
                       ShouldNotify(currentUsage, limit, thresholds))
    /\ UNCHANGED <<clock, redis, cache, pending, log, errors, lookups, nextId,
                   ruleOps, last, faults, hooks, calls>>

\* one call in a behaviour: the function keeps no state
NotifyNext ==
    \E in \in NotifyInputs :
        ret.op = "none" /\ ShouldNotifyCall(in[1], in[2], in[3])

SpecNotify == Init /\ [][NotifyNext]_vars

---------------------------------------------------------------------------
(* The webhook queue and its notifier: SpecHooks *)

\* config.webhook: WEBHOOK_MAX_RETRIES and WEBHOOK_RETRY_DELAY
maxRetries == 2
retryDelay == 1000

\* jobs enqueued in one behaviour of SpecHooks
MaxJobs == 2

\* Math.pow(2, n)
RECURSIVE Pow2(_)
Pow2(n) == IF n = 0 THEN 1 ELSE 2 * Pow2(n - 1)

\* WebhookNotifier.createPayload at the present time; endpoint is optional
CreatePayload(key, limit, currentUsage, threshold, endpoint) ==
    [key |-> key, endpoint |-> endpoint, limit |-> limit,
     currentUsage |-> currentUsage, threshold |-> threshold,
     timestamp |-> clock,
     message |-> <<"Rate limit ", ToString(threshold),
                   "% threshold reached for ">> \o key]

\* JSON.stringify(payload): the members in the order createPayload wrote
\* them, a member that is undefined left out
JsonStringify(payload) ==
    <<<<"key", payload.key>>>>
        \o (IF payload.endpoint = {} THEN <<>>
            ELSE <<<<"endpoint", Some(payload.endpoint)>>>>)
        \o <<<<"limit", NumStr(payload.limit)>>,
             <<"currentUsage", NumStr(payload.currentUsage)>>,
             <<"threshold", NumStr(payload.threshold)>>,
             <<"timestamp", NumStr(payload.timestamp)>>,
             <<"message", payload.message>>>>

\* crypto.createHmac('sha256', secret).update(data).digest('hex'): the
\* digest is kept as a term over the key and the data
HmacSha256Hex(secret, data) == <<"hmac-sha256", secret, data>>

GenerateSignatureOfMessage(payload, secret) ==
    <<"sha256=", HmacSha256Hex(secret, payload.message)>>

\* WebhookNotifier.generateSignature
GenerateSignature(payload, secret) ==
    <<"sha256=", HmacSha256Hex(secret, JsonStringify(payload))>>

\* if (secret): a string that is there and not empty
Truthy(opt) == opt # {} /\ Some(opt) # <<>>

\* the request sendWebhook posts: axios serialises the payload object
Request(url, payload, secret) ==
    [url |-> url,
     signature |-> IF Truthy(secret)
                   THEN {GenerateSignature(payload, Some(secret))} ELSE {},
     body |-> JsonStringify(payload)]

\* the jobs the processor of the queue is running
Active == {j \in DOMAIN hooks.jobs : hooks.jobs[j].state = "active"}

HooksFrame ==
    UNCHANGED <<redis, cache, pending, log, errors, lookups, nextId, ruleOps,
                last, faults, ret, calls>>

\* WebhookQueue.enqueue: queue.add gives the job the next id and puts it
\* last on the wait list
Enqueue(url, payload, secret) ==
    LET id == hooks.added + 1
    IN  /\ hooks' = [hooks EXCEPT
                !.added = id,
                !.wait = Append(@, id),
                !.jobs = [j \in DOMAIN @ \cup {id} |->
                            IF j = id
                            THEN [data |-> [url |-> url, payload |-> payload,
                                            secret |-> secret],
                                  state |-> "waiting", attemptsMade |-> 0,
                                  attempt |-> 0, pc |-> "none"]
                            ELSE @[j]]]
        /\ UNCHANGED clock
        /\ HooksFrame

\* the processor (concurrency 1) takes the first job of the wait list and
\* calls notify: attempt = 0
Process ==
    /\ Active = {}
    /\ hooks.wait # <<>>
    /\ hooks' = [hooks EXCEPT
            !.wait = Tail(@),
            !.jobs[Head(hooks.wait)] = [@ EXCEPT !.state = "active",
                                                !.attempt = 0, !.pc = "send"]]
    /\ UNCHANGED clock
    /\ HooksFrame

JobFailedAtOnce(job) ==
    [job EXCEPT !.attemptsMade = @ + 1, !.pc = "none", !.state = "failed"]

\* what the queue does with job j when notify has thrown: another run
\* after a backoff while attemptsMade < attempts, else the job is kept
\* as failed (removeOnFail: false)
JobFailed(job) ==
    [job EXCEPT !.attemptsMade = @ + 1, !.pc = "none",
                !.state = IF job.attemptsMade + 1 < maxRetries + 1
                          THEN "delayed" ELSE "failed"]

RetriesOnceMore(attempt) == attempt <= maxRetries

\* the loop of notify goes on after a failed attempt
Retries(attempt) == attempt < maxRetries

\* one pass of the loop of notify for job j: sendWebhook succeeds (notify
\* returns, the job completes and is removed: removeOnComplete) or
\* fails (sleep next, or throw lastError after the last attempt)
SendWebhook(j, ok) ==
    LET job == hooks.jobs[j]
        post == [kind |-> "post", job |-> j, run |-> job.attemptsMade,
                 attempt |-> job.attempt, ok |-> ok, at |-> clock,
                 secret |-> job.data.secret,
                 request |-> Request(job.data.url, job.data.payload,
                                     job.data.secret)]
    IN  /\ j \in Active
        /\ job.pc = "send"
        /\ hooks' = [hooks EXCEPT
                !.sent = Append(@, post),
                !.jobs = IF ok
                         THEN [k \in DOMAIN @ \ {j} |-> @[k]]
                         ELSE IF Retries(job.attempt)
                         THEN [@ EXCEPT ![j].pc = "sleep"]
                         ELSE [@ EXCEPT ![j] = JobFailed(job)]]
        /\ UNCHANGED clock
        /\ HooksFrame

\* await this.sleep(this.retryDelay * Math.pow(2, attempt)), then attempt++
Sleep(j) ==
    LET job == hooks.jobs[j]
        delay == retryDelay * Pow2(job.attempt)
    IN  /\ j \in Active
        /\ job.pc = "sleep"
        /\ clock' = clock + delay
        /\ hooks' = [hooks EXCEPT
                !.sent = Append(@, [kind |-> "sleep", job |-> j,
                                    run |-> job.attemptsMade,
                                    attempt |-> job.attempt, delay |-> delay]),
                !.jobs[j] = [@ EXCEPT !.attempt = @ + 1, !.pc = "send"]]
        /\ HooksFrame

\* the backoff of a delayed job is over: it goes back on the wait list
Promote(j) ==
    /\ j \in DOMAIN hooks.jobs
    /\ hooks.jobs[j].state = "delayed"
    /\ hooks' = [hooks EXCEPT !.wait = Append(@, j),
                              !.jobs[j].state = "waiting"]
    /\ UNCHANGED clock
    /\ HooksFrame

\* what is enqueued: a payload for key "a" made at the present time, with
\* no secret, an empty one, or one of two secrets
HookSecrets == {Absent, {<<>>}, {<<"s">>}, {<<"t">>}}
HookPayloads ==
    {CreatePayload(<<"a">>, 2, 2, t, e) : t \in {80}, e \in {Absent}}

EnqueueSome ==
    \E payload \in HookPayloads, secret \in HookSecrets :
        /\ hooks.added < MaxJobs
        /\ Enqueue(<<"h">>, payload, secret)

HooksNext ==
    \/ EnqueueSome
    \/ Process
    \/ \E j \in Active, ok \in BOOLEAN : SendWebhook(j, ok)
    \/ \E j \in Active : Sleep(j)
    \/ \E j \in DOMAIN hooks.jobs : Promote(j)

\* the event loop runs a ready continuation, http requests end (timeout),
\* timers fire
HooksFairness ==
    /\ WF_vars(Process)
    /\ WF_vars(\E j \in Active, ok \in BOOLEAN : SendWebhook(j, ok))
    /\ WF_vars(\E j \in Active : Sleep(j))
    /\ WF_vars(\E j \in DOMAIN hooks.jobs : Promote(j))

SpecHooks == Init /\ [][HooksNext]_vars /\ HooksFairness

---------------------------------------------------------------------------
(* Checks through rules that name a webhook: SpecAlerts *)

\* rules created and checks made in one behaviour of SpecAlerts
MaxAlertRules == 2
MaxAlertChecks == 3

\* CreateRuleRequest with a webhookUrl
AlertRequests ==
    [id : {{r} : r \in ClientIds}, algorithm : {"fixed_window"}, limit : {2},
     window : Windows, keys : KeyConfigs, enabled : {Absent},
     thresholds : {Absent, {<<50>>}}, webhookUrl : {Absent, {<<"h">>}}]

\* CheckRequest that names the rule or leaves the rule to be matched
AlertChecks ==
    {[key |-> k, endpoint |-> Absent, ruleId |-> r, algorithm |-> Absent,
      limit |-> Absent, window |-> Absent] :
        k \in SubjectKeys, r \in {Absent} \cup {{x} : x \in ClientIds}}

AlertsNext ==
    \/ \E i \in RuleProcesses, request \in AlertRequests, uuid \in RuleIds :
            ruleOps < MaxAlertRules /\ CreateRule(i, request, uuid)
    \/ \E i \in RuleProcesses, request \in AlertChecks :
            nextId < MaxAlertChecks /\ Check(i, request)
    \/ \E c \in BagToSet(pending) : ExecFixedWindow(c)

\* every call in flight is served in the end
SpecAlerts == Init /\ [][AlertsNext]_vars /\ WF_vars(AlertsNext)

---------------------------------------------------------------------------
(* Properties of the algorithm engine, checked under Spec *)

Entries(algorithm) == {n \in DOMAIN log : log[n].algorithm = algorithm}

\* the check was executed at the instant it read the clock
Immediate(n) == log[n].at = log[n].now

\* entries m of the same subject and algorithm as entry n whose timestamps
\* lie in [from, to)
Between(n, from, to) ==
    {m \in DOMAIN log :
        /\ log[m].key = log[n].key
        /\ log[m].algorithm = log[n].algorithm
        /\ from <= log[m].now
        /\ log[m].now < to}

AllowedIn(ms) == {m \in ms : log[m].result.allowed}

\* entries with a timestamp in the aligned window of entry n
SameWindow(n) ==
    LET windowStart == WindowStart(log[n].now, log[n].window)
    IN  Between(n, windowStart, windowStart + log[n].window * MsPerSec)

\* C1: fixed window: among the checks whose timestamp falls in one aligned
\* window, exactly the first L to execute are allowed, and every later one
\* is denied with retryAfter > 0.
C1_FirstLimitAllowed ==
    \A n \in Entries("fixed_window") :
        LET rank == Cardinality({m \in SameWindow(n) : m <= n})
        IN  /\ log[n].result.allowed <=> rank <= log[n].limit
            /\ ~log[n].result.allowed =>
                    /\ log[n].result.retryAfter # {}
                    /\ Some(log[n].result.retryAfter) > 0

\* C2: the stored counter of a (subject, windowStart) key equals the number
\* of checks allowed on that key and never exceeds the limit.
C2_CounterCountsAllowed ==
    \A n \in Entries("fixed_window") :
        LET k == FixedWindowKey(log[n].key,
                                WindowStart(log[n].now, log[n].window))
        IN  k \in DOMAIN redis =>
                /\ redis[k].val = Cardinality(AllowedIn(SameWindow(n)))
                /\ redis[k].val <= log[n].limit

AllImmediate == \A n \in DOMAIN log : Immediate(n)

AllowedInPreviousWindow(n) ==
    LET windowStart == WindowStart(log[n].now, log[n].window)
    IN  AllowedIn({m \in Between(n, windowStart - log[n].window * MsPerSec,
                                 windowStart) : m < n})

C5_AtMostLimitPerInterval ==
    AllImmediate => \A n \in Entries("sliding_window") :
        Cardinality(AllowedIn(Between(n, log[n].now,
                log[n].now + log[n].window * MsPerSec))) <= log[n].limit

\* C6: every CheckResult has remaining >= 0.
C6_RemainingNonNegative ==
    \A n \in DOMAIN log : log[n].result.remaining >= 0

\* C7: retryAfter is present exactly when the check is denied, and is then
\* an integer >= 1.
C7_RetryAfterIffDenied ==
    \A n \in DOMAIN log :
        /\ log[n].result.allowed => log[n].result.retryAfter = {}
        /\ ~log[n].result.allowed =>
                /\ log[n].result.retryAfter # {}
                /\ Some(log[n].result.retryAfter) \in Int
                /\ Some(log[n].result.retryAfter) >= 1

\* a denied check after an allowed one, the denied one executed late
C7_Witness ==
    \E n \in DOMAIN log :
        /\ ~log[n].result.allowed
        /\ ~Immediate(n)
        /\ \E m \in 1..n : log[m].result.allowed

\* C8: the timestamp a check decides with is the time at which the store
\* executes it, so checks are applied with non-decreasing timestamps.
C8_TimestampIsExecutionTime ==
    \A n \in DOMAIN log :
        /\ log[n].now = log[n].at
        /\ n > 1 => log[n - 1].now <= log[n].now

---------------------------------------------------------------------------
(* Properties of the orchestrator, checked under SpecSvc *)

\* the step receives a check; last' is then that check
Checked == nextId' = nextId + 1

\* the step hands exactly one call with these parameters to the engine
Issued(algorithm, limit, window) ==
    pending' = pending (+) SetToBag(
        {[algorithm |-> algorithm, key |-> FullKey(last'.request),
          limit |-> limit, window |-> window, now |-> clock]})

\* what getRule gives instance i for the ruleId of request q, if it has one
NamedRule(i, q) ==
    IF q.ruleId = {} THEN {} ELSE GetRule(i, Some(q.ruleId)).rule

\* the counters and buckets held by a store: all its keys but the rules
Counters(store) ==
    [k \in DOMAIN store \ {RuleKey(id) : id \in RuleIds} |-> store[k]]

\* C9: resolution is first-match-wins in the order ruleId, inline
\* parameters, matcher: a ruleId naming an existing enabled rule gives that
\* rule's algorithm, limit and window even when inline parameters are given;
\* without ruleId and with all three inline parameters these are used and
\* the rule cache and the store are neither read nor written; otherwise the
\* matched rule's parameters are used, a partial inline set being ignored.
C9_ResolutionOrder ==
    [][Checked =>
        LET i       == last'.inst
            q       == last'.request
            named   == NamedRule(i, q)
            matched == FindByKey(i, q.key)
        IN  /\ (named # {} /\ Some(named).enabled) =>
                    Issued(Some(named).algorithm, Some(named).limit,
                           Some(named).window)
            /\ (q.ruleId = {} /\ HasInline(q)) =>
                    /\ Issued(Some(q.algorithm), Some(q.limit), Some(q.window))
                    /\ cache' = cache
                    /\ redis' = redis
                    /\ lookups' = lookups
            /\ (q.ruleId = {} /\ ~HasInline(q) /\ matched # {}) =>
                    Issued(Some(matched).algorithm, Some(matched).limit,
                           Some(matched).window)
    ]_vars

\* the only check so far named a rule and carried all three inline
\* parameters, and the call it issued does not use the inline algorithm
C9_Witness ==
    /\ nextId = 1
    /\ last.request.ruleId # {}
    /\ HasInline(last.request)
    /\ \E c \in BagToSet(pending) :
            /\ c.key = FullKey(last.request)
            /\ c.algorithm # Some(last.request.algorithm)

\* the message of the error when resolution of q on instance i fails
ResolutionError(i, q) ==
    IF q.ruleId # {}
    THEN IF NamedRule(i, q) = {} THEN {"Rule not found"}
         ELSE IF ~Some(NamedRule(i, q)).enabled THEN {"Rule is disabled"}
         ELSE {}
    ELSE IF ~HasInline(q) /\ FindByKey(i, q.key) = {}
         THEN {"No matching rule found and no inline parameters provided"}
         ELSE {}

\* C10: a check that fails resolution (no rule under ruleId, a disabled
\* rule under ruleId, or no ruleId, incomplete inline parameters and no
\* matching rule) returns an error and no CheckResult, and leaves every
\* counter and bucket of every subject unchanged.
C10_FailedResolutionNoEffect ==
    [][(Checked /\ ResolutionError(last'.inst, last'.request) # {}) =>
        /\ errors' = Append(errors,
                            Some(ResolutionError(last'.inst, last'.request)))
        /\ pending' = pending
        /\ log' = log
        /\ Counters(redis') = Counters(redis)
    ]_vars

\* a check with inline parameters was executed and left a bucket; the check
\* after it, on the same subject, named a disabled rule and got the error
C10_Witness ==
    /\ nextId = 2
    /\ Len(log) = 1
    /\ log[1].algorithm = "token_bucket"
    /\ pending = EmptyBag
    /\ last.request.ruleId # {}
    /\ last.request.key = log[1].key
    /\ errors # <<>>
    /\ errors[Len(errors)] = "Rule is disabled"
    /\ DOMAIN Counters(redis) # {}

---------------------------------------------------------------------------
(* Two subjects that share their key and differ in their endpoint, checked *)
(* under one algorithm, limit and window: SpecPair.                        *)

\* checks and clock steps in one behaviour of SpecPair
MaxPairChecks == 3
MaxPairTicks == 5

\* the requests of the two subjects
PairRequests(algorithm, limit, window) ==
    {[InlineRequest(<<"a">>, algorithm, limit, window) EXCEPT !.endpoint = {e}] :
        e \in Endpoints}

PairNext ==
    \/ clock < MaxPairTicks * TickMs /\ Tick
    \/ \E i \in Instances, a \in Algorithms, l \in Limits, w \in Windows :
            /\ Configs \subseteq {<<a, l, w>>}
            /\ nextId < MaxPairChecks
            /\ \E request \in PairRequests(a, l, w) : Check(i, request)
    \/ \E c \in BagToSet(pending) : ExecFixedWindow(c)
    \/ \E c \in BagToSet(pending) : ExecSlidingWindow(c)
    \/ \E c \in BagToSet(pending) : ExecTokenBucket(c)

SpecPair == Init /\ [][PairNext]_vars

---------------------------------------------------------------------------
(* Properties of subjects, checked under SpecPair *)

\* the (key, endpoint) pairs checked in SpecPair
PairSubjects == {[key |-> <<"a">>, endpoint |-> {e}] : e \in Endpoints}

\* the starts of the windows that the clock of the model reaches
WindowStarts ==
    {WindowStart(t * TickMs, w) : t \in 0..MaxTicks, w \in Windows}

\* the keys of a key space that hold the state of subject s
SubjectState(store, s) ==
    LET owned == {TokenBucketKey(FullKey(s))} \cup
                 {FixedWindowKey(FullKey(s), ws) : ws \in WindowStarts} \cup
                 {SlidingWindowKey(FullKey(s), ws) : ws \in WindowStarts}
    IN  [k \in DOMAIN store \cap owned |-> store[k]]

\* C11: two requests with the same key and different endpoints are
\* independent subjects.  A check executed for one subject leaves the stored
\* state of the other unchanged, and its result and the state it leaves are
\* what the limiter gives on the subject's own stored state alone; a clock
\* step changes the stored state of a subject only by its own expiries.  So
\* the results of one subject do not depend on the checks of the other.
C11_EndpointsIndependent ==
    [][/\ Len(log') = Len(log) + 1 =>
            LET e == log'[Len(log')]
            IN  \A s \in PairSubjects :
                    IF e.key = FullKey(s)
                    THEN LET out == RunLimiter(SubjectState(redis, s), e)
                         IN  /\ e.result = out.result
                             /\ SubjectState(redis', s) = out.store
                             /\ \A t \in PairSubjects \ {s} :
                                    SubjectState(redis', t) = SubjectState(redis, t)
                    ELSE TRUE
       /\ clock' # clock =>
            \A s \in PairSubjects :
                SubjectState(redis', s) =
                    [k \in {j \in DOMAIN SubjectState(redis, s) :
                                clock' <= redis[j].exp} |-> redis[k]]
    ]_vars

\* both subjects have stored state, one of them was denied and the other
\* was allowed after that denial
C11_Witness ==
    \E m, n \in DOMAIN log :
        /\ m < n
        /\ log[m].key # log[n].key
        /\ ~log[m].result.allowed
        /\ log[n].result.allowed
        /\ \A s \in PairSubjects : DOMAIN SubjectState(redis, s) # {}

---------------------------------------------------------------------------
(* Store failures, checked under SpecSvc *)

\* the errors with which resolution rejects
ResolutionErrors ==
    {"Rule not found", "Rule is disabled",
     "No matching rule found and no inline parameters provided"}

Count(seq, set) == Cardinality({n \in DOMAIN seq : seq[n] \in set})

\* C12: when the store operation of a check fails, the check fails with
\* that error: every failed store operation has given one store error and
\* no CheckResult, and every check issued has ended in one CheckResult or
\* in one error or still awaits the store; none was issued again.
C12_StoreFailureFailsCheck ==
    /\ Count(errors, {StoreError}) = faults
    /\ nextId = Len(log) + BagCardinality(pending)
                    + Count(errors, ResolutionErrors \cup {StoreError})

\* two checks were issued: the store operation of one failed after its
\* script had run, the other returned its result
C12_Witness ==
    /\ nextId = 2
    /\ faults = 1
    /\ Len(log) = 1
    /\ pending = EmptyBag
    /\ Count(errors, {StoreError}) = 1
    /\ Cardinality(DOMAIN Counters(redis)) = 2

---------------------------------------------------------------------------
(* Properties of the rule service, checked under SpecRules *)

\* value occurs in key as a run of consecutive characters
IsSubstring(value, key) ==
    \E a \in 1..(Len(key) + 1) :
        /\ a + Len(value) - 1 <= Len(key)
        /\ SubSeq(key, a, a + Len(value) - 1) = value

\* the rule is enabled and one of its KeyConfig values is "*" or a
\* substring of the key
Satisfies(rule, key) ==
    /\ rule.enabled
    /\ \E n \in DOMAIN rule.keys :
            rule.keys[n].value = <<"*">> \/ IsSubstring(rule.keys[n].value, key)

\* the first rule of the scan that satisfies the condition, if any
FirstSatisfying(rules, key) ==
    LET hits == {n \in DOMAIN rules : Satisfies(rules[n], key)}
    IN  {rules[n] : n \in {m \in hits : \A h \in hits : m <= h}}

\* this step is a call of op of the rule service
Called(op) == ret'.op = op /\ (ret.op = op => ret' # ret)

\* C13: findMatchingRule(key, endpoint) returns a rule exactly when some
\* enabled rule known to the process has a KeyConfig whose value is "*" or
\* a substring of key; the rule returned is enabled, satisfies the
\* condition and is the first such rule of the scan, so a disabled rule is
\* never returned and a repeated call returns the same rule.
C13_FindMatchingRule ==
    [][/\ \A i \in Instances, key \in MatchKeys :
            FindByKey(i, key) = FirstSatisfying(cache[i], key)
       /\ Called("findMatchingRule") =>
            /\ ret'.value = FirstSatisfying(cache[ret'.inst], ret'.arg[1])
            /\ (ret'.value # {}) <=>
                    \E n \in DOMAIN cache[ret'.inst] :
                        Satisfies(cache[ret'.inst][n], ret'.arg[1])
            /\ \A r \in ret'.value : Satisfies(r, ret'.arg[1])
            /\ cache' = cache
    ]_vars

\* a lookup of "u:4200" passed over a disabled "*" rule and returned the
\* enabled rule of value "42", which a lookup of "u:42" returns as well
C13_Witness ==
    /\ ret.op = "findMatchingRule"
    /\ ret.arg[1] = <<"u", ":", "4", "2", "0", "0">>
    /\ Len(cache[ret.inst]) = 2
    /\ ~cache[ret.inst][1].enabled
    /\ cache[ret.inst][1].keys[1].value = <<"*">>
    /\ ret.value = {cache[ret.inst][2]}
    /\ cache[ret.inst][2].keys[1].value = <<"4", "2">>
    /\ FindByKey(ret.inst, <<"u", ":", "4", "2">>) = ret.value
    /\ FindByKey(ret.inst, <<"u", ":", "7">>) = {}

\* the rule agrees with the request on every field the request supplied
\* and has the defaults where it supplied none
Materialised(rule, request) ==
    /\ request.id # {} => rule.id = Some(request.id)
    /\ rule.algorithm = request.algorithm
    /\ rule.limit = request.limit
    /\ rule.window = request.window
    /\ rule.keys = request.keys
    /\ rule.enabled = IF request.enabled = {} THEN TRUE ELSE Some(request.enabled)
    /\ rule.thresholds = IF request.thresholds = {} THEN <<80, 90, 100>>
                         ELSE Some(request.thresholds)
    /\ rule.webhookUrl = request.webhookUrl
    /\ rule.createdAt.type = "Date"
    /\ rule.updatedAt.type = "Date"

\* C14: rule round trip. The rule R that createRule(req) returns agrees
\* with req on the supplied fields and has the defaults materialised; a
\* getRule(R.id) that follows on the same process, served from the cache
\* or re-read from the store after a restart, returns a rule identical to
\* R in every field, and so is the entry of R.id in getAllRules().
C14_RuleRoundTrip ==
    [][/\ (Called("createRule") /\ ~ret'.threw) =>
            \A r \in ret'.value : Materialised(r, ret'.arg)
       /\ (ret.op = "createRule" /\ ~ret.threw /\ ret'.inst = ret.inst) =>
            LET R == Some(ret.value)
            IN  /\ (ret'.op = "getRule" /\ ret'.arg = R.id) => ret'.value = {R}
                /\ ret'.op = "getAllRules" =>
                        \A n \in DOMAIN ret'.value :
                            ret'.value[n].id = R.id => ret'.value[n] = R
    ]_vars

\* the rule id is held by the cached rules or by the store
Exists(rules, store, id) ==
    (\E n \in DOMAIN rules : rules[n].id = id) \/ RuleKey(id) \in DOMAIN store

\* this step is a call of deleteRule
Deleting == ret'.op = "deleteRule" /\ ruleOps' = ruleOps + 1

\* C15: deleteRule returns true exactly when the rule existed in the cache
\* or in the store, and it is then in neither; deleting an id that does
\* not exist returns false without error and changes neither the cache nor
\* the store, the second time as the first; a delete repeated after a
\* successful one returns false.
C15_DeleteRule ==
    [][Deleting =>
        LET i  == ret'.inst
            id == ret'.arg
        IN  /\ ~ret'.threw
            /\ errors' = errors
            /\ ret'.value = Exists(cache[i], redis, id)
            /\ ~Exists(cache'[i], redis', id)
            /\ Exists(cache[i], redis, id) =>
                    /\ cache'[i] = SelectSeq(cache[i], LAMBDA r : r.id # id)
                    /\ redis' = [k \in DOMAIN redis \ {RuleKey(id)} |-> redis[k]]
            /\ ~Exists(cache[i], redis, id) => cache' = cache /\ redis' = redis
            /\ (ret.op = "deleteRule" /\ ret.inst = i /\ ret.arg = id) =>
                    ret'.value = FALSE
    ]_vars

\* a rule was created and deleted from the cache with result true, and a
\* further delete found nothing in the cache or the store: result false
C15_Witness ==
    /\ ret.op = "deleteRule"
    /\ ret.value = FALSE
    /\ ruleOps = 3
    /\ lookups = 3
    /\ redis = <<>>
    /\ cache[ret.inst] = <<>>
    /\ errors = <<>>

\* this step is a call of updateRule
Updating == ret'.op = "updateRule" /\ ruleOps' = ruleOps + 1

\* the rules held under id by the cached rules, and by the store
InCache(rules, id) == {rules[n] : n \in {m \in DOMAIN rules : rules[m].id = id}}
InStore(store, id) ==
    {store[k].val : k \in {j \in DOMAIN store : j = RuleKey(id)}}

UpdateFields ==
    {"algorithm", "limit", "window", "keys", "enabled", "thresholds",
     "webhookUrl"}

\* after has the id and createdAt of before, and the value of before in
\* every field that the partial leaves out
Preserves(before, after, partial) ==
    /\ after.id = before.id
    /\ after.createdAt = before.createdAt
    /\ \A f \in UpdateFields : partial[f] = {} => after[f] = before[f]

\* C16: updateRule(id, partial) never changes the id or createdAt of a
\* rule: the rule held under id by the cache and by the store after the
\* call has the id and createdAt it had before, and the previous value of
\* every field the partial leaves out (updatedAt is the time of the
\* update); updating an id that does not exist returns absent and creates
\* nothing.
C16_UpdatePreservesIdentity ==
    [][Updating =>
        LET i       == ret'.inst
            id      == ret'.arg[1]
            partial == ret'.arg[2]
            held    == IF InCache(cache[i], id) # {} THEN InCache(cache[i], id)
                       ELSE InStore(redis, id)
        IN  /\ \A a \in InCache(cache'[i], id) : a.id = id
            /\ \A a \in InStore(redis', id) : a.id = id
            /\ \A b \in InCache(cache[i], id), a \in InCache(cache'[i], id) :
                    Preserves(b, a, partial)
            /\ \A b \in InStore(redis, id), a \in InStore(redis', id) :
                    Preserves(b, a, partial)
            /\ \A b \in held, a \in ret'.value : Preserves(b, a, partial)
            /\ \A b \in held, a \in InCache(cache'[i], id) :
                    a.createdAt.ms = b.createdAt.ms
            /\ held # {} => InCache(cache'[i], id) # {} /\ InStore(redis', id) # {}
            /\ held = {} =>
                    /\ ret'.value = {} /\ ~ret'.threw
                    /\ cache' = cache /\ redis' = redis
            /\ \A r \in RuleIds \ {id} :
                    /\ InCache(cache'[i], r) = InCache(cache[i], r)
                    /\ InStore(redis', r) = InStore(redis, r)
    ]_vars

\* a rule created at time 0 was updated later: the rule returned, the
\* cached rule and the stored rule carry the creation time 0, the update
\* time, the new algorithm and the other fields as they were
C16_Witness ==
    /\ ret.op = "updateRule"
    /\ ruleOps = 3
    /\ \E r \in ret.value :
            /\ r.createdAt = Date(0)
            /\ r.updatedAt = Date(TickMs)
            /\ r.algorithm = "sliding_window"
            /\ ~r.enabled
            /\ r.limit = 2
            /\ InCache(cache[ret.inst], r.id) = {r}
            /\ InStore(redis, r.id) = {ToJSON(r)}

\* the invariant of a rule
RuleInvariant(rule) ==
    /\ rule.limit > 0
    /\ rule.window > 0
    /\ \A n \in 1..Len(rule.thresholds) :
            0 <= rule.thresholds[n] /\ rule.thresholds[n] <= 100
    /\ rule.keys # <<>>

\* C17: after any sequence of createRule, updateRule and deleteRule calls,
\* rejected ones included, every rule held in a cache or persisted in the
\* store has limit > 0, window > 0, every threshold in [0,100] and at
\* least one key.
C17_RuleInvariant ==
    /\ \A i \in Instances : \A n \in DOMAIN cache[i] : RuleInvariant(cache[i][n])
    /\ \A id \in RuleIds : \A r \in InStore(redis, id) : RuleInvariant(r)

\* a createRule and an updateRule were rejected and a rule is held in the
\* cache and in the store
C17_Witness ==
    /\ ret.op = "updateRule" /\ ret.threw
    /\ ret.arg[2].limit = {0}
    /\ Len(errors) = 2
    /\ ruleOps = 3
    /\ InCache(cache[ret.inst], ret.arg[1]) # {}
    /\ \A r \in InCache(cache[ret.inst], ret.arg[1]) : r.createdAt.type = "Date"
    /\ InStore(redis, ret.arg[1]) # {}

\* the ids of the cached rules
Ids(rules) == {rules[n].id : n \in DOMAIN rules}

\* this step is a call of getRule, of a mutating operation, a restart
Fetching == ret'.op = "getRule" /\ lookups' # lookups /\ ruleOps' = ruleOps
Mutating(op) == ret'.op = op /\ ruleOps' = ruleOps + 1
Restarting(i) == cache'[i] = <<>> /\ cache[i] # <<>> /\ ruleOps' = ruleOps

\* the ids process i creates, updates or fetches in this step, and deletes
Seen(i) ==
    IF ret'.inst # i THEN {}
    ELSE IF Mutating("createRule") THEN {r.id : r \in ret'.value}
    ELSE IF Mutating("updateRule")
         THEN {id \in {ret'.arg[1]} : Exists(cache[i], redis, id)}
    ELSE IF Fetching THEN {id \in {ret'.arg} : Exists(cache[i], redis, id)}
    ELSE {}

Deleted(i) ==
    IF ret'.inst = i /\ Mutating("deleteRule") THEN {ret'.arg} ELSE {}

\* C19: getRule reads the cache first and the store on a miss, and puts
\* what it read from the store into the cache; getAllRules and
\* findMatchingRule consult the cache only. The cache of a process holds
\* exactly the rules the process created, updated or fetched by id since
\* its restart and did not delete, whatever else the store holds.
C19_CacheFirstReads ==
    [][/\ Fetching =>
            LET i   == ret'.inst
                id  == ret'.arg
                hit == InCache(cache[i], id)
            IN  /\ ret'.value = IF hit # {} THEN hit ELSE InStore(redis, id)
                /\ hit # {} => cache' = cache /\ lookups' = lookups + 1
                /\ hit = {} =>
                        /\ InCache(cache'[i], id) = InStore(redis, id)
                        /\ lookups' = lookups + 2
                /\ redis' = redis
       /\ Called("getAllRules") =>
            /\ ret'.value = cache[ret'.inst]
            /\ UNCHANGED <<cache, redis, lookups>>
       /\ Called("findMatchingRule") =>
            /\ ret'.value = FirstSatisfying(cache[ret'.inst], ret'.arg[1])
            /\ UNCHANGED <<cache, redis, lookups>>
       /\ \A i \in Instances :
            Ids(cache'[i]) = IF Restarting(i) THEN {}
                             ELSE (Ids(cache[i]) \ Deleted(i)) \cup Seen(i)
    ]_vars

\* two rules were created, the process restarted and fetched one of them
\* by id: the list holds that rule as read from the store, and not the
\* other rule of the store
C19_Witness ==
    /\ ret.op = "getAllRules"
    /\ Len(ret.value) = 1
    /\ ret.value[1].createdAt.type = "string"
    /\ ret.value = cache[ret.inst]
    /\ InStore(redis, "r1") # {} /\ InStore(redis, "r2") # {}
    /\ \A key \in MatchKeys : FindByKey(ret.inst, key) \subseteq {ret.value[1]}
    /\ lookups = 2

---------------------------------------------------------------------------
(* Validation, checked under SpecRoutes *)

\* this step rejects a request for a validation error
Rejects == errors' = Append(errors, "ZodError")

\* C18: a request that fails validation is rejected before any store
\* access: a check request that violates CheckRequestSchema reaches no
\* algorithm, and a createRule or updateRule whose resulting rule violates
\* RuleSchema performs no store read, no store write and no cache write.
C18_ValidationBeforeStoreAccess ==
    [][Rejects =>
        /\ redis' = redis
        /\ cache' = cache
        /\ lookups' <= lookups + 1
        /\ pending' = pending /\ log' = log /\ nextId' = nextId
    ]_vars

---------------------------------------------------------------------------
(* The notifier, checked under SpecNotify *)

\* the thresholds of the list that the usage has reached
Satisfied(currentUsage, limit, thresholds) ==
    {thresholds[n] : n \in {m \in DOMAIN thresholds :
                                currentUsage * 100 >= thresholds[m] * limit}}

---------------------------------------------------------------------------
(* The notifier and the queue, checked under SpecHooks *)

\* the notify calls begun so far: job j, run r of the job
NotifyCalls == {<<hooks.sent[n].job, hooks.sent[n].run>> : n \in DOMAIN hooks.sent}

\* the places in the record of the HTTP attempts of a call, of its waits
Posts(c) ==
    {n \in DOMAIN hooks.sent : /\ hooks.sent[n].kind = "post"
                               /\ <<hooks.sent[n].job, hooks.sent[n].run>> = c}
Sleeps(c) ==
    {n \in DOMAIN hooks.sent : /\ hooks.sent[n].kind = "sleep"
                               /\ <<hooks.sent[n].job, hooks.sent[n].run>> = c}

\* the call is over: it returned after a success or threw after the last
\* attempt
Succeeded(c) == \E n \in Posts(c) : hooks.sent[n].ok
Exhausted(c) ==
    \E n \in Posts(c) : ~hooks.sent[n].ok /\ hooks.sent[n].attempt = maxRetries

\* the attempts and waits of one notify call
NotifyCallOk(c) ==
    /\ Cardinality(Posts(c)) <= maxRetries + 1
    /\ \A n \in Posts(c) :
            LET e == hooks.sent[n]
            IN  /\ e.attempt = Cardinality({m \in Posts(c) : m < n})
                /\ e.ok => \A m \in Posts(c) \cup Sleeps(c) : m <= n
                /\ (~e.ok /\ n < Len(hooks.sent)) =>
                        LET f == hooks.sent[n + 1]
                        IN  IF e.attempt < maxRetries
                            THEN /\ n + 1 \in Sleeps(c)
                                 /\ f.delay = retryDelay * (2 ^ e.attempt)
                            ELSE n + 1 \notin Sleeps(c)
                /\ e.attempt > 0 =>
                        /\ n - 1 \in Sleeps(c)
                        /\ n - 2 \in Posts(c)
                        /\ e.at = hooks.sent[n - 2].at
                                    + retryDelay * (2 ^ (e.attempt - 1))
    /\ Cardinality(Sleeps(c)) <= maxRetries
    \* success: the job is complete; all attempts failed: the error reached
    \* the queue, which counted the run
    /\ Succeeded(c) => c[1] \notin DOMAIN hooks.jobs
    /\ (Exhausted(c) /\ ~Succeeded(c)) =>
            IF c[1] \in DOMAIN hooks.jobs
            THEN hooks.jobs[c[1]].attemptsMade > c[2]
            ELSE \E d \in NotifyCalls : d[1] = c[1] /\ d[2] > c[2]
    /\ (~Exhausted(c) /\ ~Succeeded(c)) =>
            /\ c[1] \in Active
            /\ hooks.jobs[c[1]].attemptsMade = c[2]

\* C21: one notify call makes at most maxRetries + 1 HTTP attempts, stops
\* at the first that succeeds, waits retryDelay * 2^attempt before the
\* next attempt and does not wait after the last; it always terminates,
\* returning when an attempt succeeded and throwing the last error when
\* all maxRetries + 1 attempts failed.
C21_NotifyRetries ==
    /\ [](\A c \in NotifyCalls : NotifyCallOk(c))
    /\ \A j \in 1..MaxJobs : (j \in Active) ~> (j \notin Active)

\* the first call for job 1 made maxRetries + 1 attempts, waited 1000 ms
\* and 2000 ms between them, not after, and threw
C21_Witness ==
    /\ Len(hooks.sent) = 2 * maxRetries + 1
    /\ Cardinality(Posts(<<1, 0>>)) = maxRetries + 1
    /\ Cardinality(Sleeps(<<1, 0>>)) = maxRetries
    /\ clock = retryDelay * ((2 ^ maxRetries) - 1)
    /\ 1 \in DOMAIN hooks.jobs
    /\ hooks.jobs[1].attemptsMade = 1
    /\ hooks.jobs[1].state = "delayed"

\* job j was delivered: one of its requests succeeded
Delivered(j) ==
    \E n \in DOMAIN hooks.sent :
        hooks.sent[n].kind = "post" /\ hooks.sent[n].job = j /\ hooks.sent[n].ok

\* a delivery attempt was made for job j
Attempted(j) ==
    \E n \in DOMAIN hooks.sent :
        hooks.sent[n].kind = "post" /\ hooks.sent[n].job = j

\* the runs of job j in which every attempt failed
FailedRuns(j) == {c \in NotifyCalls : c[1] = j /\ Exhausted(c) /\ ~Succeeded(c)}

\* a delivered job is off the queue, and no other job is: a job whose
\* runs are all used up is kept in state failed
QueueKeepsJobs ==
    \A j \in 1..hooks.added :
        /\ Delivered(j) <=> j \notin DOMAIN hooks.jobs
        /\ Delivered(j) => \A n \in DOMAIN hooks.wait : hooks.wait[n] # j
        /\ j \in DOMAIN hooks.jobs =>
                /\ hooks.jobs[j].attemptsMade = Cardinality(FailedRuns(j))
                /\ hooks.jobs[j].state = "failed"
                        <=> Cardinality(FailedRuns(j)) = maxRetries + 1

\* C23: every job accepted by enqueue is in the end handed to the worker,
\* which makes at least one delivery attempt for it (the worker being
\* scheduled fairly); a job that is delivered is removed from the queue,
\* and a job whose attempts are all used up is kept as a failed record.
C23_QueueDelivery ==
    /\ []QueueKeepsJobs
    /\ \A j \in 1..MaxJobs : (hooks.added >= j) ~> Attempted(j)

\* job 1 used up all its runs and is kept as failed; job 2, enqueued
\* behind it, was delivered and is gone
C23_Witness ==
    /\ hooks.added = 2
    /\ DOMAIN hooks.jobs = {1}
    /\ hooks.jobs[1].state = "failed"
    /\ hooks.jobs[1].attemptsMade = maxRetries + 1
    /\ Delivered(2) /\ ~Delivered(1)
    /\ hooks.wait = <<>>

\* the requests posted so far
Posted == {n \in DOMAIN hooks.sent : hooks.sent[n].kind = "post"}

\* a secret was given to the call: a string that is not empty
Provided(secret) == secret \notin {{}, {<<>>}}

HookRules ==
    {redis[k].val : k \in {j \in DOMAIN redis : j[1] = "rule:" /\ Live(redis, j)
                                                /\ redis[j].val.webhookUrl # {}}}

\* the completed checks whose usage is at or above a threshold of the
\* rule with a webhook through which they were resolved
Crossings ==
    {n \in DOMAIN log :
        \E rule \in HookRules :
            /\ log[n].algorithm = rule.algorithm
            /\ log[n].limit = rule.limit /\ log[n].window = rule.window
            /\ \E m \in DOMAIN rule.thresholds :
                    log[n].result.currentUsage * 100
                        >= rule.thresholds[m] * rule.limit}

\* C22: when a check resolved through a rule with a webhookUrl produces a
\* usage at or above one of the rule's thresholds, a delivery job is
\* enqueued on the webhook queue, asynchronously to the check; repeated
\* crossings enqueue repeated jobs: n crossings lead to n jobs enqueued.
C22_CrossingEnqueuesJob ==
    \A n \in 1..MaxAlertChecks :
        (Cardinality(Crossings) >= n) ~> (hooks.added >= n)

---------------------------------------------------------------------------
(* The engine over a period longer than two windows: few checks of one     *)
(* subject, then time passes until every key has expired.                  *)

\* ticks of 1/TicksPerSec s in one behaviour
MaxExpiryTicks == 9
\* checks in one behaviour
MaxExpiryChecks == 3

ExpiryNext ==
    \/ clock < MaxExpiryTicks * TickMs /\ Elapse
    \/ nextId < MaxExpiryChecks /\ CheckSubject
    \/ \E c \in BagToSet(pending) : ExecFixedWindow(c)
    \/ \E c \in BagToSet(pending) : ExecSlidingWindow(c)
    \/ \E c \in BagToSet(pending) : ExecTokenBucket(c)

SpecExpiry == Init /\ [][ExpiryNext]_vars

---------------------------------------------------------------------------
(* Expiry of the algorithm keys, checked under SpecExpiry *)

\* the key that the check of log entry e writes when it writes
WrittenKey(e) ==
    CASE e.algorithm = "fixed_window" ->
            FixedWindowKey(e.key, WindowStart(e.now, e.window))
      [] e.algorithm = "sliding_window" ->
            SlidingWindowKey(e.key, WindowStart(e.now, e.window))
      [] e.algorithm = "token_bucket" -> TokenBucketKey(e.key)

\* the life of a key of log entry e, in ms: window seconds for the fixed
\* window, 2 * window seconds for the sliding window and the token bucket
LifeMs(e) ==
    IF e.algorithm = "fixed_window" THEN e.window * MsPerSec
    ELSE 2 * e.window * MsPerSec

\* the checks have stopped and the life of the last one's keys is over
ChecksStoppedLongAgo ==
    /\ log # <<>>
    /\ pending = EmptyBag
    /\ \A n \in DOMAIN log : clock > log[n].at + LifeMs(log[n])

\* C25: every counter or bucket key in the store carries an expiry, and that
\* expiry is the one set by the script run of a check that wrote the key:
\* the time of that run plus window seconds (fixed window) or 2 * window
\* seconds (sliding window, token bucket).  Hence no algorithm key exists
\* without an expiry, and once the checks of the subject have stopped for
\* longer than that life the store holds none of its keys.
C25_KeysExpire ==
    /\ \A k \in DOMAIN Counters(redis) :
            /\ redis[k].exp # NoExpiry
            /\ \E n \in DOMAIN log :
                    /\ k = WrittenKey(log[n])
                    /\ redis[k].exp = log[n].at + LifeMs(log[n])
    /\ ChecksStoppedLongAgo => DOMAIN Counters(redis) = {}

\* a sliding window or token bucket check wrote a key, the checks stopped,
\* and more than 2 * window seconds later the store holds no key
C25_Witness ==
    /\ ChecksStoppedLongAgo
    /\ \E n \in DOMAIN log :
            log[n].algorithm # "fixed_window" /\ log[n].result.allowed
    /\ DOMAIN Counters(redis) = {}


---------------------------------------------------------------------------
(* The fixed window across a window boundary, checked under SpecExpiry *)

\* the allowed checks of the subject of entry n that the store ran in the
\* interval of window seconds that starts with the run of entry n
AdmittedFrom(n) ==
    {m \in Entries(log[n].algorithm) :
        /\ log[m].key = log[n].key
        /\ log[m].result.allowed
        /\ log[n].at <= log[m].at
        /\ log[m].at < log[n].at + log[n].window * MsPerSec}

\* C26: fixed window, one subject, constant limit L and window W: in any
\* rolling interval of W seconds at most 2 * L checks are allowed.
C26_AtMostTwiceLimit ==
    \A n \in Entries("fixed_window") :
        Cardinality(AdmittedFrom(n)) <= 2 * log[n].limit

\* the step is the run of a fixed window check that is denied
DeniedFixedWindow ==
    /\ Len(log') = Len(log) + 1
    /\ log'[Len(log')].algorithm = "fixed_window"
    /\ ~log'[Len(log')].result.allowed

\* a denied fixed window check leaves every counter and expiry as it was
C26_DeniedLeavesCounter == [][DeniedFixedWindow => redis' = redis]_vars

\* 2 * L checks allowed within less than W seconds across a boundary, each
\* run at the instant of its timestamp
C26_Burst ==
    \E n \in Entries("fixed_window") :
        /\ AllImmediate
        /\ Cardinality(AdmittedFrom(n)) = 2 * log[n].limit
        /\ \A m \in AdmittedFrom(n) :
                log[m].at - log[n].at < log[n].window * MsPerSec
        /\ \E m \in AdmittedFrom(n) :
                WindowStart(log[m].now, log[m].window) #
                    WindowStart(log[n].now, log[n].window)


---------------------------------------------------------------------------
(* The sliding window, checked under SpecExpiry *)

\* the step is the store running the script of a check of this algorithm;
\* log' then ends with that check
Runs(algorithm) ==
    /\ Len(log') = Len(log) + 1
    /\ log'[Len(log')].algorithm = algorithm

\* the count a script reads under key k: 0 when the store has no such key
CountRead(k) == IF Live(redis, k) THEN redis[k].val ELSE 0

AllowedInWindowBefore(e) ==
    LET ms == e.window * MsPerSec
        currentWindow == WindowStart(e.now, e.window)
    IN  {m \in DOMAIN log :
            /\ log[m].key = e.key
            /\ log[m].algorithm = e.algorithm
            /\ log[m].result.allowed
            /\ currentWindow - ms <= log[m].now
            /\ log[m].now < currentWindow}

\* C28: sliding window: a counter incremented during window w is still in
\* the store for every check whose current window is w + 1: the previous
\* count such a check reads is the number of checks allowed in window w,
\* never 0 because of expiry.
C28_PreviousCountSurvives ==
    [][Runs("sliding_window") =>
        LET e == log'[Len(log')]
            previousWindow ==
                WindowStart(e.now, e.window) - e.window * MsPerSec
        IN  CountRead(SlidingWindowKey(e.key, previousWindow)) =
                Cardinality(AllowedInWindowBefore(e))
    ]_vars

\* C28 for the checks that the store runs at the instant of their timestamp
C28_WhenImmediate ==
    [][(Runs("sliding_window") /\ \A n \in DOMAIN log' : log'[n].at = log'[n].now)
        => LET e == log'[Len(log')]
               previousWindow ==
                   WindowStart(e.now, e.window) - e.window * MsPerSec
           IN  CountRead(SlidingWindowKey(e.key, previousWindow)) =
                   Cardinality(AllowedInWindowBefore(e))
    ]_vars


---------------------------------------------------------------------------
(* The token bucket, checked under SpecExpiry *)

\* a = b for rationals
REq(a, b) == a[1] * b[2] = b[1] * a[2]

\* C29: token bucket: every check, allowed or denied, persists the bucket:
\* after the check the stored last_update is the timestamp of the check, the
\* stored tokens are min(limit, previous tokens + elapsed * limit / window)
\* minus 1 if the check is allowed and minus 0 if it is denied (a bucket not
\* in the store counts as full and as updated at the timestamp), and the
\* expiry is 2 * window seconds from the run; the stored tokens never exceed
\* limit.  A denied check thus keeps the fraction refilled so far.
C29_BucketPersisted ==
    [][Runs("token_bucket") =>
        LET e == log'[Len(log')]
            k == TokenBucketKey(e.key)
            has == Live(redis, k)
            previous == IF has THEN redis[k].val.tokens ELSE <<e.limit, 1>>
            elapsedMs == IF has THEN e.now - redis[k].val.last_update ELSE 0
            \* previous + elapsed * limit / window, elapsed in seconds
            refilled == <<previous[1] * MsPerSec * e.window
                            + elapsedMs * e.limit * previous[2],
                          previous[2] * MsPerSec * e.window>>
            capped == IF RLess(<<e.limit, 1>>, refilled)
                      THEN <<e.limit, 1>> ELSE refilled
            taken == IF e.result.allowed THEN 1 ELSE 0
        IN  /\ k \in DOMAIN redis'
            /\ redis'[k].val.last_update = e.now
            /\ REq(redis'[k].val.tokens,
                   <<capped[1] - taken * capped[2], capped[2]>>)
            /\ redis'[k].exp = clock + 2 * e.window * MsPerSec
            /\ ~RLess(<<e.limit, 1>>, redis'[k].val.tokens)
    ]_vars

\* two denied checks in a row, at different times, after which the bucket
\* holds the fraction of a token refilled since it was emptied
C29_Witness ==
    \E n \in Entries("token_bucket") :
        /\ n + 1 = Len(log)
        /\ ~log[n].result.allowed
        /\ ~log[n + 1].result.allowed
        /\ log[n].now < log[n + 1].now
        /\ TokenBucketKey(log[n].key) \in DOMAIN redis
        /\ LET bucket == redis[TokenBucketKey(log[n].key)].val
           IN  /\ bucket.last_update = log[n + 1].now
               /\ RLess(<<0, 1>>, bucket.tokens)
               /\ RLess(bucket.tokens, <<1, 1>>)
               /\ REq(bucket.tokens,
                      <<(log[n + 1].now - log[1].now) * log[1].limit,
                        log[1].window * MsPerSec>>)


---------------------------------------------------------------------------
(* The token bucket with a rate below one token a second: one subject,     *)
(* limit 1, window 2 s, over three seconds.                                *)

\* ticks of 1/TicksPerSec s in one behaviour
MaxBucketTicks == 12
\* checks in one behaviour
MaxBucketChecks == 3

BucketLimits == {1}
BucketWindows == {2}

BucketNext ==
    \/ clock < MaxBucketTicks * TickMs /\ Elapse
    \/ \E i \in Instances, l \in BucketLimits, w \in BucketWindows :
            /\ nextId < MaxBucketChecks
            /\ Check(i, InlineRequest(<<"a">>, "token_bucket", l, w))
    \/ \E c \in BagToSet(pending) : ExecTokenBucket(c)

SpecBucket == Init /\ [][BucketNext]_vars

---------------------------------------------------------------------------
(* retryAfter of the token bucket, checked under SpecBucket *)

\* the check run in this step comes retryAfter seconds after the check run
\* before it, which was denied
RetriesOnTime ==
    /\ log # <<>>
    /\ ~log[Len(log)].result.allowed
    /\ log'[Len(log')].key = log[Len(log)].key
    /\ log'[Len(log')].now =
            log[Len(log)].now
                + Some(log[Len(log)].result.retryAfter) * MsPerSec

\* every check, that of this step included, ran at the instant of its
\* timestamp
RunOnTime == \A n \in DOMAIN log' : log'[n].at = log'[n].now

\* C30: token bucket: a denied check returns retryAfter =
\* ceiling((1 - tokens) / rate), tokens being the fractional token count
\* after the refill (which a denied check stores as it is) and rate =
\* limit / window; and the check of the same subject issued retryAfter
\* seconds later, with no other check in between, is allowed.  Stated for
\* the schedules in which every check runs at its own timestamp, which the
\* claim covers.
C30_RetryAfter ==
    [][(Runs("token_bucket") /\ RunOnTime) =>
        LET e == log'[Len(log')]
            tokens == redis'[TokenBucketKey(e.key)].val.tokens
        IN  /\ ~e.result.allowed =>
                    e.result.retryAfter =
                        {Ceil(<<(tokens[2] - tokens[1]) * e.window,
                                tokens[2] * e.limit>>)}
            /\ RetriesOnTime => e.result.allowed
    ]_vars

\* the second part of C30 alone
C30_RetryThenAllowed ==
    [][(Runs("token_bucket") /\ RunOnTime /\ RetriesOnTime) =>
            log'[Len(log')].result.allowed]_vars

\* a check denied with a fraction of a token, and the check retryAfter
\* seconds later, each run at the instant of its timestamp
C30_Retried ==
    \E n \in Entries("token_bucket") :
        /\ AllImmediate
        /\ n < Len(log)
        /\ log[n].result.remaining = 0
        /\ log[n].now > log[1].now
        /\ ~log[n].result.allowed
        /\ log[n + 1].now =
                log[n].now + Some(log[n].result.retryAfter) * MsPerSec
        /\ log[n + 1].result.allowed


---------------------------------------------------------------------------
(* retryAfter of the two window algorithms, checked under SpecExpiry *)

\* C31: fixed window and sliding window: after a denied check has returned
\* retryAfter = r, the check of the same subject issued r seconds later,
\* with no other check in between, is allowed.  Stated for the schedules in
\* which every check runs at its own timestamp, which the claim covers.
C31_RetryAfterAdmits ==
    [][((Runs("fixed_window") \/ Runs("sliding_window"))
            /\ RunOnTime /\ RetriesOnTime)
        => log'[Len(log')].result.allowed]_vars

\* C31 for the fixed window alone
C31_FixedRetryAdmits ==
    [][(Runs("fixed_window") /\ RunOnTime /\ RetriesOnTime)
        => log'[Len(log')].result.allowed]_vars

\* a fixed window check denied, and the check retryAfter seconds later
C31_FixedRetried ==
    \E n \in Entries("fixed_window") :
        /\ AllImmediate
        /\ n < Len(log)
        /\ ~log[n].result.allowed
        /\ log[n + 1].now =
                log[n].now + Some(log[n].result.retryAfter) * MsPerSec
        /\ log[n + 1].result.allowed


---------------------------------------------------------------------------
(* The token bucket while the connection to the store stalls: the client   *)
(* queues the commands it cannot send and sends them once it has           *)
(* reconnected, so a script can reach the store any time after the check   *)
(* read the clock.                                                         *)

\* ticks of 1/TicksPerSec s in one behaviour
MaxStallTicks == 9
\* checks in one behaviour
MaxStallChecks == 3

StallNext ==
    \/ clock < MaxStallTicks * TickMs /\ Lapse(MaxStallTicks)
    \/ \E i \in Instances, l \in Limits, w \in Windows :
            /\ nextId < MaxStallChecks
            /\ Configs \subseteq {<<"token_bucket", l, w>>}
            /\ Check(i, InlineRequest(<<"a">>, "token_bucket", l, w))
    \/ \E c \in BagToSet(pending) : ExecTokenBucket(c)

SpecStall == Init /\ [][StallNext]_vars

---------------------------------------------------------------------------
(* The rate the token bucket admits, checked under SpecStall *)

\* C32: token bucket, one subject, constant limit L and window W: for every
\* schedule and every interval of T seconds, the checks allowed with
\* timestamps in the interval number at most L + T * L / W, also when checks
\* run in another order than their timestamps.  (The intervals that begin
\* and end with the timestamp of a check decide all others; both sides are
\* multiplied by W * 1000.)
C32_TokenRateBound ==
    \A n, m \in Entries("token_bucket") :
        log[n].now <= log[m].now =>
            Cardinality(AllowedIn(Between(n, log[n].now, log[m].now + 1)))
                    * log[n].window * MsPerSec
                <= log[n].limit * log[n].window * MsPerSec
                    + (log[m].now - log[n].now) * log[n].limit


---------------------------------------------------------------------------
(* Expiry of the bucket key *)

\* the outcome of log entries 1..n had no key expired: the scripts run in
\* the same order with the same arguments on a store that keeps every key
\* (run at one instant, no key written is past its expiry)
RECURSIVE Unexpired(_)
Unexpired(n) ==
    IF n = 0 THEN [store |-> <<>>, results |-> <<>>]
    ELSE LET before == Unexpired(n - 1)
             out    == RunLimiter(before.store, log[n])
         IN  [store |-> out.store,
              results |-> Append(before.results, out.result)]

\* C33: token bucket: the expiry of a bucket key cannot be observed: every
\* check returns the allowed and remaining, and leaves the stored tokens,
\* that it would have if no key had expired.
C33_ExpiryUnobservable ==
    (log # <<>> /\ log[1].algorithm = "token_bucket") =>
        LET kept == Unexpired(Len(log))
            k    == TokenBucketKey(log[1].key)
        IN  /\ \A n \in DOMAIN log :
                    /\ log[n].result.allowed = kept.results[n].allowed
                    /\ log[n].result.remaining = kept.results[n].remaining
            /\ k \in DOMAIN redis => redis[k].val = kept.store[k].val

\* a check has run after the bucket key expired
C33_AfterExpiry ==
    \E n \in Entries("token_bucket") :
        /\ n > 1
        /\ log[n].at > log[n - 1].at + 2 * log[n].window * MsPerSec
        /\ log[n].result.allowed


---------------------------------------------------------------------------
(* Checks of subjects that differ in key or in endpoint: two checks, made  *)
(* and run at one instant under one algorithm.                             *)

\* checks in one behaviour
MaxKeyChecks == 2

\* the key of a request and the endpoint it has or has not
SubjectPairs ==
    {<<k, e>> : k \in {<<"a">>, <<"a", ":", "b">>},
                e \in {Absent, {<<>>}, {<<"b">>}}}

KeyRequests(algorithm) ==
    {[InlineRequest(p[1], algorithm, 1, 1) EXCEPT !.endpoint = p[2]] :
        p \in SubjectPairs}

KeysNext ==
    \/ \E i \in Instances, a \in Algorithms :
            /\ nextId < MaxKeyChecks
            /\ Configs \subseteq {<<a, 1, 1>>}
            /\ \E request \in KeyRequests(a) : Check(i, request)
    \/ \E c \in BagToSet(pending) : ExecFixedWindow(c)
    \/ \E c \in BagToSet(pending) : ExecSlidingWindow(c)
    \/ \E c \in BagToSet(pending) : ExecTokenBucket(c)

SpecKeys == Init /\ [][KeysNext]_vars

---------------------------------------------------------------------------
(* Subjects and counters, checked under SpecKeys *)

\* the calls handed to the engine so far, as WrittenKey reads them
CallsSoFar ==
    {[key |-> c.key, algorithm |-> c.algorithm, window |-> c.window,
      now |-> c.now] : c \in BagToSet(pending) \cup Range(log)}

\* the calls handed to the engine by this step
NewCalls ==
    {[key |-> c.key, algorithm |-> c.algorithm, window |-> c.window,
      now |-> c.now] : c \in BagToSet(pending' (-) pending)}

\* C34: two check requests whose (key, endpoint) pairs differ never share a
\* counter: the store key of the second check differs from the store key of
\* the first, also for key "a:b" without endpoint against key "a" with
\* endpoint "b", and for an empty endpoint against no endpoint.  (Both
\* checks are made at one instant under the same algorithm and window, so
\* the store keys differ only if the subjects do.)
C34_PairsHaveOwnCounters ==
    [][(/\ nextId = 1
        /\ nextId' = 2
        /\ <<last.request.key, last.request.endpoint>> #
                <<last'.request.key, last'.request.endpoint>>)
        => \A c \in CallsSoFar, d \in NewCalls :
                WrittenKey(c) # WrittenKey(d)
    ]_vars

\* C34 for the pairs that differ in key and have no endpoint
C34_KeysHaveOwnCounters ==
    [][(/\ nextId = 1
        /\ nextId' = 2
        /\ last.request.endpoint = Absent
        /\ last'.request.endpoint = Absent
        /\ last.request.key # last'.request.key)
        => \A c \in CallsSoFar, d \in NewCalls :
                WrittenKey(c) # WrittenKey(d)
    ]_vars


---------------------------------------------------------------------------
(* updateRule on a rule loaded from the store, checked under SpecRules *)

\* the call of this step returned the rule merged from the partial, and the
\* cache and the store hold it
UpdatedAndPersisted ==
    LET i       == ret'.inst
        id      == ret'.arg[1]
        partial == ret'.arg[2]
    IN  /\ ~ret'.threw
        /\ ret'.value # {}
        /\ \A a \in ret'.value :
                /\ a.id = id
                /\ \A f \in UpdateFields :
                        partial[f] # {} => a[f] = Some(partial[f])
                /\ InCache(cache'[i], id) = {a}
                /\ InStore(redis', id) = {ToJSON(a)}

\* C35: updateRule(id, partial) with a valid partial on a rule that exists
\* in the store returns the merged rule and persists it, with a cold cache
\* (after a restart) exactly as with the rule still cached from createRule.
C35_UpdateLoadedRule ==
    [][(/\ Updating
        /\ ret'.arg[2] \in UpdateRequests
        /\ InStore(redis, ret'.arg[1]) # {})
        => UpdatedAndPersisted]_vars

\* C35 for the rules that createRule or updateRule of this process cached
C35_UpdateCachedRule ==
    [][(/\ Updating
        /\ ret'.arg[2] \in UpdateRequests
        /\ InStore(redis, ret'.arg[1]) # {}
        /\ \E b \in InCache(cache[ret'.inst], ret'.arg[1]) :
                b.createdAt.type = "Date")
        => UpdatedAndPersisted]_vars


---------------------------------------------------------------------------
(* The rule service of one process while writes to the store can fail: the *)
(* promise of storage.set or storage.del rejects (the connection is lost). *)
(* The command has taken effect at the store (ran) or has not.             *)

\* createRule, updateRule and deleteRule calls in one behaviour
MaxFaultCalls == 3
\* rejected store writes in one behaviour
MaxStoreFaults == 2

\* createRule whose storage.set rejects: the rule is cached by then
CreateRuleStoreFails(i, request, uuid, ran) ==
    LET rule == NewRule(request, uuid)
    IN  /\ ruleOps' = ruleOps + 1
        /\ faults' = faults + 1
        /\ request.id = {} => uuid \in RuleIds \ (ClientIds \cup KnownIds)
        /\ RuleSchemaOk(rule)
        /\ cache' = [cache EXCEPT ![i] = CacheSet(@, rule)]
        /\ redis' = IF ran THEN StorePut(redis, rule) ELSE redis
        /\ errors' = Append(errors, StoreError)
        /\ ret' = Threw("createRule", i, request)
        /\ UNCHANGED <<clock, pending, log, lookups, nextId, last, hooks, calls>>

\* updateRule whose storage.set rejects: the merged rule is cached by then
UpdateRuleStoreFails(i, id, update, ran) ==
    LET got     == GetRule(i, id)
        updated == MergeRule(Some(got.rule), update, id)
    IN  /\ ruleOps' = ruleOps + 1
        /\ faults' = faults + 1
        /\ lookups' = lookups + got.reads
        /\ got.rule # {}
        /\ RuleSchemaOk(updated)
        /\ cache' = [cache EXCEPT ![i] = CacheSet(got.rules, updated)]
        /\ redis' = IF ran THEN StorePut(redis, updated) ELSE redis
        /\ errors' = Append(errors, StoreError)
        /\ ret' = Threw("updateRule", i, <<id, update>>)
        /\ UNCHANGED <<clock, pending, log, nextId, last, hooks, calls>>

\* deleteRule whose storage.del rejects: the rule has left the cache by then
DeleteRuleStoreFails(i, id, ran) ==
    LET got == GetRule(i, id)
    IN  /\ ruleOps' = ruleOps + 1
        /\ faults' = faults + 1
        /\ lookups' = lookups + got.reads
        /\ got.rule # {}
        /\ cache' = [cache EXCEPT ![i] = CacheDelete(got.rules, id)]
        /\ redis' = IF ran THEN StoreDel(redis, id) ELSE redis
        /\ errors' = Append(errors, StoreError)
        /\ ret' = Threw("deleteRule", i, id)
        /\ UNCHANGED <<clock, pending, log, nextId, last, hooks, calls>>

FaultsNext ==
    \/ \E i \in RuleProcesses, request \in ValidRuleRequests, uuid \in RuleIds :
            ruleOps < MaxFaultCalls /\ CreateRule(i, request, uuid)
    \/ \E i \in RuleProcesses, id \in RuleIds, update \in UpdateRequests :
            ruleOps < MaxFaultCalls /\ UpdateRule(i, id, update)
    \/ \E i \in RuleProcesses, id \in RuleIds :
            ruleOps < MaxFaultCalls /\ DeleteRule(i, id)
    \/ \E i \in RuleProcesses, request \in ValidRuleRequests, uuid \in RuleIds, ran \in BOOLEAN :
            /\ ruleOps < MaxFaultCalls /\ faults < MaxStoreFaults
            /\ CreateRuleStoreFails(i, request, uuid, ran)
    \/ \E i \in RuleProcesses, id \in RuleIds, update \in UpdateRequests, ran \in BOOLEAN :
            /\ ruleOps < MaxFaultCalls /\ faults < MaxStoreFaults
            /\ UpdateRuleStoreFails(i, id, update, ran)
    \/ \E i \in RuleProcesses, id \in RuleIds, ran \in BOOLEAN :
            /\ ruleOps < MaxFaultCalls /\ faults < MaxStoreFaults
            /\ DeleteRuleStoreFails(i, id, ran)
    \/ \E i \in RuleProcesses, id \in RuleIds :
            lookups < MaxLookups /\ GetRuleCall(i, id)
    \/ \E i \in RuleProcesses : GetAllRules(i)
    \/ \E i \in RuleProcesses, key \in MatchKeys, endpoint \in {Absent} :
            FindMatchingRule(i, key, endpoint)

SpecFaults == Init /\ [][FaultsNext]_vars

---------------------------------------------------------------------------
(* Cache and store under failed writes, checked under SpecFaults *)

\* every rule in the cache of a process is the rule the store holds under
\* its id
CacheAgrees(rules, store) ==
    \A n \in DOMAIN rules : InStore(store, rules[n].id) = {ToJSON(rules[n])}

\* the call of this step failed on its store write
StoreWriteFailed == faults' = faults + 1 /\ ruleOps' = ruleOps + 1

\* C36: if the store write of createRule or updateRule, or the store delete
\* of deleteRule, fails, the call fails and the cache is left as it was
\* before the call; so in every state a rule visible through getRule,
\* getAllRules or findMatchingRule, all of which read the cache, is the rule
\* persisted under the same id in the store.
C36_CacheAgreesOnFailure ==
    [][/\ StoreWriteFailed => ret'.threw /\ cache' = cache
       /\ \A i \in RuleProcesses : CacheAgrees(cache'[i], redis')
       /\ (ret'.op \in {"getRule", "findMatchingRule"} /\ ret' # ret) =>
                \A r \in ret'.value : InStore(redis', r.id) = {ToJSON(r)}
    ]_vars

\* C36 for the calls whose store write succeeds
C36_CacheAgreesWithoutFailure ==
    [][faults' = 0 => \A i \in RuleProcesses : CacheAgrees(cache'[i], redis')]_vars


---------------------------------------------------------------------------
(* Rule changes across instances, checked under SpecSvc *)

\* the latest rule service call was a deleteRule(id) that returned true or
\* an updateRule(id, ...) that returned the updated rule, and the check made
\* in this step fails with rule-not-found, or is resolved with the
\* algorithm, limit, window and enabled flag of the updated rule
SeesLastChange(id) ==
    /\ (ret.op = "deleteRule" /\ ret.arg = id /\ ret.value = TRUE) =>
            errors' = Append(errors, "Rule not found")
    /\ (ret.op = "updateRule" /\ ret.arg[1] = id /\ ret.value # {}) =>
            \A rule \in ret.value :
                IF rule.enabled
                THEN Issued(rule.algorithm, rule.limit, rule.window)
                ELSE errors' = Append(errors, "Rule is disabled")

\* C37: rule changes are seen by every instance: once deleteRule(id) or
\* updateRule(id, ...) has completed on one instance, a check with that
\* ruleId on any instance sharing the store fails with rule-not-found
\* (after the delete) or uses the updated algorithm, limit, window and
\* enabled flag (after the update), also on an instance that has the rule
\* in its cache.
C37_RuleChangesSeenEverywhere ==
    [][(Checked /\ last'.request.ruleId # {})
        => SeesLastChange(Some(last'.request.ruleId))]_vars

\* C37 for the checks on the instance that made the change and on the
\* instances that do not have the rule cached
C37_SeenWithoutStaleCache ==
    [][(/\ Checked
        /\ last'.request.ruleId # {}
        /\ \/ last'.inst = ret.inst
           \/ CacheGet(last'.inst, Some(last'.request.ruleId)) = {})
        => SeesLastChange(Some(last'.request.ruleId))]_vars


---------------------------------------------------------------------------
(* updateRule and deleteRule of one process between their awaits.  A call  *)
(* runs without interruption from one await of the store to the next (an   *)
(* await of a value already at hand gives no other request a turn).  The   *)
(* client sends its commands over one connection: the store runs them in   *)
(* the order sent, which is when the call issues them here, and the        *)
(* replies come back in that order (ticket).                               *)

\* createRule calls in one behaviour
MaxRaceRules == 1
\* updateRule and deleteRule calls in one behaviour
MaxRaceCalls == 2

\* the ticket of the next command
NextTicket ==
    LET sent == {0} \cup {calls[n].ticket : n \in DOMAIN calls}
    IN  1 + CHOOSE t \in sent : \A u \in sent : u <= t

Call(op, i, id, update, pc, data, hit, returned) ==
    [op |-> op, inst |-> i, id |-> id, update |-> update, pc |-> pc,
     data |-> data, hit |-> hit, returned |-> returned,
     ticket |-> IF pc = "done" THEN 0 ELSE NextTicket,
     overlap |-> \E n \in DOMAIN calls : calls[n].pc # "done"]

\* updateRule from the rule that getRule returned to the storage.set it
\* awaits; rules is the cache as getRule left it
MergeAndSet(c, rule, rules) ==
    LET updated == MergeRule(rule, c.update, c.id)
    IN  IF RuleSchemaOk(updated)
        THEN /\ cache' = [cache EXCEPT ![c.inst] = CacheSet(rules, updated)]
             /\ redis' = StorePut(redis, updated)
             /\ UNCHANGED errors
        ELSE /\ cache' = [cache EXCEPT ![c.inst] = rules]
             /\ errors' = Append(errors, "ZodError")
             /\ UNCHANGED redis

\* what MergeAndSet leaves of the call: awaiting the set, or thrown
AfterMerge(c, rule) ==
    IF RuleSchemaOk(MergeRule(rule, c.update, c.id))
    THEN [c EXCEPT !.pc = "set", !.ticket = NextTicket,
                   !.returned = "rule"]
    ELSE [c EXCEPT !.pc = "done", !.returned = "threw"]

\* deleteRule from the rule that getRule returned to the storage.del it
\* awaits
DeleteAndDel(c, rules) ==
    /\ cache' = [cache EXCEPT ![c.inst] = CacheDelete(rules, c.id)]
    /\ redis' = StoreDel(redis, c.id)
    /\ UNCHANGED errors

\* a request handler calls updateRule or deleteRule: getRule finds the rule
\* in the cache and the call runs on to its store write, or getRule sends
\* storage.get and awaits the reply
StartCall(op, i, id, update) ==
    LET hit == CacheGet(i, id)
        \* storage.get(`rule:${id}`) as the store answers it now
        data == IF Live(redis, RuleKey(id)) THEN {redis[RuleKey(id)].val}
                ELSE {}
        c   == Call(op, i, id, update, "get", data, hit # {}, "none")
    IN  /\ Len(calls) < MaxRaceCalls
        /\ IF hit = {}
           THEN /\ calls' = Append(calls, c)
                /\ UNCHANGED <<cache, redis, errors>>
           ELSE IF op = "updateRule"
           THEN /\ MergeAndSet(c, Some(hit), cache[i])
                /\ calls' = Append(calls, AfterMerge(c, Some(hit)))
           ELSE /\ DeleteAndDel(c, cache[i])
                /\ calls' = Append(calls, [c EXCEPT !.pc = "del",
                                                     !.returned = "true"])
        /\ UNCHANGED <<clock, pending, log, lookups, nextId, ruleOps, last,
                       faults, ret, hooks>>

\* the reply that is due next is the one call n awaits
ReplyDue(n) ==
    /\ n \in DOMAIN calls
    /\ calls[n].pc # "done"
    /\ \A m \in DOMAIN calls :
            calls[m].pc # "done" => calls[n].ticket <= calls[m].ticket

\* the reply of storage.get arrives: getRule returns null, or caches the
\* parsed rule and returns it, and the call runs on to its store write
GetReplied(n) ==
    LET c == calls[n]
        rules == CacheSet(cache[c.inst], Some(c.data))
    IN  /\ ReplyDue(n)
        /\ c.pc = "get"
        /\ IF c.data = {}
           THEN /\ calls' = [calls EXCEPT ![n] =
                        [c EXCEPT !.pc = "done",
                                  !.returned = IF c.op = "updateRule"
                                               THEN "null" ELSE "false"]]
                /\ UNCHANGED <<cache, redis, errors>>
           ELSE IF c.op = "updateRule"
           THEN /\ MergeAndSet(c, Some(c.data), rules)
                /\ calls' = [calls EXCEPT ![n] = AfterMerge(c, Some(c.data))]
           ELSE /\ DeleteAndDel(c, rules)
                /\ calls' = [calls EXCEPT ![n] =
                        [c EXCEPT !.pc = "del", !.ticket = NextTicket,
                                  !.returned = "true"]]
        /\ UNCHANGED <<clock, pending, log, lookups, nextId, ruleOps, last,
                       faults, ret, hooks>>

\* the reply of storage.set or storage.del arrives: the call returns
WriteReplied(n) ==
    /\ ReplyDue(n)
    /\ calls[n].pc \in {"set", "del"}
    /\ calls' = [calls EXCEPT ![n] = [@ EXCEPT !.pc = "done"]]
    /\ UNCHANGED <<clock, redis, cache, pending, log, errors, lookups, nextId,
                   ruleOps, last, faults, ret, hooks>>

RaceNext ==
    \/ \E i \in RuleProcesses, request \in ValidRuleRequests, uuid \in RuleIds :
            /\ ruleOps < MaxRaceRules
            /\ calls = <<>>
            /\ CreateRule(i, request, uuid)
    \/ \E i \in RuleProcesses : calls = <<>> /\ Restart(i)
    \/ \E i \in RuleProcesses, id \in RuleIds, update \in UpdateRequests :
            StartCall("updateRule", i, id, update)
    \/ \E i \in RuleProcesses, id \in RuleIds :
            StartCall("deleteRule", i, id, NoUpdate)
    \/ \E n \in DOMAIN calls : GetReplied(n)
    \/ \E n \in DOMAIN calls : WriteReplied(n)

SpecRace == Init /\ [][RaceNext]_vars

---------------------------------------------------------------------------
(* Concurrent rule mutations, checked under SpecRace *)

\* two calls on one id have run at the same time and have both returned
RanConcurrently ==
    /\ Len(calls) = 2
    /\ calls[2].overlap
    /\ calls[1].id = calls[2].id
    /\ \A n \in DOMAIN calls : calls[n].pc = "done"

\* the fields a partial changes
Changes(update) == {f \in UpdateFields : update[f] # {}}

\* the rule carries what the partial changes
Carries(rule, update) ==
    \A f \in Changes(update) : rule[f] = Some(update[f])

\* C38: concurrent rule mutations in one process are not lost: when two
\* updateRule calls on one id that change different fields run
\* concurrently, the rule left in the cache and in the store after both
\* have completed contains both changes; when an updateRule and a
\* deleteRule on one id run concurrently and the delete returns true, the
\* rule is in neither the cache nor the store once both have completed.
C38_NoLostMutation ==
    RanConcurrently =>
        LET i  == calls[1].inst
            id == calls[1].id
        IN  /\ (/\ \A n \in DOMAIN calls :
                        /\ calls[n].op = "updateRule"
                        /\ calls[n].hit \/ calls[n].data # {}
                 /\ Changes(calls[1].update) \cap Changes(calls[2].update) = {})
                => /\ InCache(cache[i], id) # {}
                   /\ InStore(redis, id) # {}
                   /\ \A r \in InCache(cache[i], id) \cup InStore(redis, id) :
                        \A n \in DOMAIN calls : Carries(r, calls[n].update)
            /\ (/\ {calls[1].op, calls[2].op} = {"updateRule", "deleteRule"}
                 /\ \E n \in DOMAIN calls :
                        calls[n].op = "deleteRule" /\ calls[n].returned = "true")
                => InCache(cache[i], id) = {} /\ InStore(redis, id) = {}

\* C38 for the calls that find the rule in the cache
C38_NoLostMutationCached ==
    (\A n \in DOMAIN calls : calls[n].hit) => C38_NoLostMutation

\* a concurrent deleteRule that returned true leaves the rule nowhere
C38_DeleteNotLost ==
    (/\ RanConcurrently
     /\ {calls[1].op, calls[2].op} = {"updateRule", "deleteRule"}
     /\ \E n \in DOMAIN calls :
            calls[n].op = "deleteRule" /\ calls[n].returned = "true")
    => /\ InCache(cache[calls[1].inst], calls[1].id) = {}
       /\ InStore(redis, calls[1].id) = {}

\* two concurrent updates of different fields have both been applied to a
\* cached rule
C38_BothUpdated ==
    /\ RanConcurrently
    /\ \A n \in DOMAIN calls : calls[n].op = "updateRule" /\ calls[n].hit
    /\ Changes(calls[1].update) \cap Changes(calls[2].update) = {}
    /\ \A r \in InStore(redis, calls[1].id) :
            \A n \in DOMAIN calls : Carries(r, calls[n].update)

\* a deleteRule and an updateRule that both missed the cache have run
\* concurrently
C38_DeleteRaced ==
    /\ RanConcurrently
    /\ {calls[1].op, calls[2].op} = {"updateRule", "deleteRule"}
    /\ \A n \in DOMAIN calls : ~calls[n].hit /\ calls[n].data # {}


---------------------------------------------------------------------------
(* Retries of a queued webhook from end to end, checked under SpecHooks *)

\* the HTTP POST attempts made for job j, over all its runs
JobPosts(j) ==
    {n \in DOMAIN hooks.sent : hooks.sent[n].kind = "post" /\ hooks.sent[n].job = j}

\* the jobs the queue has recorded as failed
FailedJobs == {j \in DOMAIN hooks.jobs : hooks.jobs[j].state = "failed"}

\* C39: bounded retry holds from end to end on the queue path: for an
\* enqueued webhook job whose endpoint always fails, the number of HTTP
\* POST attempts made before the job is recorded as failed is at most
\* maxRetries + 1.
C39_BoundedRetry ==
    \A j \in FailedJobs : Cardinality(JobPosts(j)) <= maxRetries + 1

\* what the code bounds: maxRetries + 1 runs of maxRetries + 1 attempts
C39_RetriesPerRun ==
    /\ \A j \in 1..hooks.added :
            Cardinality(JobPosts(j)) <= (maxRetries + 1) * (maxRetries + 1)
    /\ \A j \in FailedJobs :
            Cardinality(JobPosts(j)) = (maxRetries + 1) * (maxRetries + 1)


---------------------------------------------------------------------------
(* The restart of the fixed window, checked under SpecExpiry *)

\* the other fixed window checks of the subject of check n
OtherChecks(n) ==
    {m \in Entries("fixed_window") : m # n /\ log[m].key = log[n].key}

\* check n of the fixed window is the first of its subject with a
\* timestamp at or after the resetAt which the checks before it returned
AfterReset(n) ==
    /\ n \in Entries("fixed_window")
    /\ \E m \in OtherChecks(n) : log[m].now < log[n].now
    /\ \A m \in OtherChecks(n) :
            \/ log[m].result.resetAt <= log[n].now
            \/ log[m].now > log[n].now

\* check n opened a window: allowed as the first of its count
OpensWindow(n) ==
    /\ log[n].result.allowed
    /\ log[n].result.currentUsage = 1
    /\ log[n].result.remaining = log[n].limit - 1
    /\ log[n].result.resetAt =
            WindowStart(log[n].now, log[n].window) + log[n].window * MsPerSec

\* C40: fixed window restart: whatever checks were allowed or denied
\* before, the first check of a subject whose timestamp is at or after the
\* resetAt returned by the check before it falls in a new window with
\* count 0 and is allowed, with resetAt = windowStart + window * 1000 of the
\* new window and remaining = limit - 1.
C40_WindowRestarts ==
    \A n \in DOMAIN log : AfterReset(n) => OpensWindow(n)

\* the scripts ran in the order of their timestamps
RunInTimestampOrder ==
    \A m, n \in DOMAIN log : m < n => log[m].now <= log[n].now

\* C40 for the schedules in which the scripts run in timestamp order
C40_RestartsInOrder == RunInTimestampOrder => C40_WindowRestarts

\* a window was used up, a check denied, and the check at the reset allowed
C40_Restarted ==
    /\ RunInTimestampOrder
    /\ \E n \in DOMAIN log :
            /\ AfterReset(n)
            /\ n > 1
            /\ ~log[n - 1].result.allowed
            /\ log[n].now = log[n - 1].result.resetAt
            /\ OpensWindow(n)


=============================================================================
